---- MODULE Spec2Model ----
(***************************************************************************)
(* Model of the OHLA lyrics crawl (campellcl/RapBot): the checkpoint file  *)
(* written and read by the web-scraper scripts, and the crawl loops of     *)
(* WebScraperTwo.py (album metadata), WebScraperStageThree.py (song text)  *)
(* and WebScraperThree.py (scrape_albums).                                 *)
(* Smaller specifications follow one operation alone: the save and load   *)
(* of a tree (SpecRT), the stepwise write of the file (SpecST), the load   *)
(* of a damaged file (SpecCK) and remove_artist_from_metadata (SpecRM).    *)
(* Further ones: PhoneticTranscriber.py, its __main__ (SpecPT) and main   *)
(* (SpecTM); the discovery of artists (SpecDI); a pass over a finished     *)
(* checkpoint (SpecAD); init_artists_storage_dirs (SpecID); and functions  *)
(* applied by themselves: the status enums' __eq__ (SpecEQ),               *)
(* transcribe_arpabet_via_cmu (SpecTA), remove_dj_tag (SpecDJ),            *)
(* get_artists_top_ten_tracks (SpecTT), sort_tracks_by_popularity (SpecSO).*)
(*                                                                         *)
(* Python values are modelled with their types kept apart, because the     *)
(* JSON round trip changes types:                                          *)
(*   I(n)  the integer n             S(n)  the string str(n)               *)
(*   None  Python's None                                                   *)
(* A dict is a record [none, items]: none = TRUE stands for the value None *)
(* where a dict is expected, items is the sequence of (key, value) pairs   *)
(* in insertion order.  A tuple or list of two atoms is [kind, a, b].      *)
(* The fields name, url and storage_dir of a record are set once from the  *)
(* listing and never read by the loops modelled here; the field name is    *)
(* kept for the top level as the identity of an artist.                    *)
(***************************************************************************)
EXTENDS Integers, Sequences, FiniteSets, TLC

\* ------------------------------------------------------------------ bounds
MaxArtists == 2
MaxAlbums == 2
MaxSongs == 2
MaxRestarts == 1
MaxTransient == 1
RTArtists == 2
RMArtists == 3
MaxPages == 2
MaxAnchors == 2
IDArtists == 3
MaxLines == 2
MaxTokens == 2
MaxLyricLines == 4
SPArtists == 2
MaxTracks == 2
MaxSorted == 4
MaxPopularity == 2

\* ------------------------------------------------------------- Python data
None == [t |-> "none", n |-> 0]
I(n) == [t |-> "int", n |-> n]
S(n) == [t |-> "str", n |-> n]

NoneDict == [none |-> TRUE, items |-> <<>>]
Dict(items) == [none |-> FALSE, items |-> items]

Tuple(a, b) == [kind |-> "tuple", a |-> a, b |-> b]
List(a, b) == [kind |-> "list", a |-> a, b |-> b]

\* class ScraperStatus(Enum): the members by name, and their values.
ScraperStatus == {"stage_zero", "stage_one", "stage_two", "stage_three", "stage_four"}

value(s) ==
    CASE s = "stage_zero" -> 0
      [] s = "stage_one" -> 1
      [] s = "stage_two" -> 2
      [] s = "stage_three" -> 3
      [] s = "stage_four" -> 4

\* Positions of a sequence, and the position of a key in a dict's items
\* (0 when the key is absent: Python raises KeyError there).
Pos(seq) == 1..Len(seq)
Lookup(items, key) ==
    IF \E p \in Pos(items) : items[p].key = key
    THEN CHOOSE p \in Pos(items) : items[p].key = key
    ELSE 0

\* ----------------------------------------------------------- JSON encoding
\* json.dump writes every dict key as a string, a tuple as a list, None as
\* null, and hands a ScraperStatus member to EnumEncoder.default, which
\* writes {"__enum__": str(obj)}; str(obj) is "ScraperStatus.<member>",
\* modelled as the pair of the text before and after the dot.
JsonKey(k) == IF k.t = "int" THEN S(k.n) ELSE k

\* (An encoder that writes the same tag for every member; kept to show that
\* C20 tells it from EnumEncoder.)
OneTagEncoder(obj) == [enum |-> <<"ScraperStatus", "stage_zero">>]

EnumEncoder(obj) == [enum |-> <<"ScraperStatus", obj>>]

JsonList(rt) == List(rt.a, rt.b)

JsonSongs(songs) ==
    IF songs.none THEN NoneDict
    ELSE Dict([p \in Pos(songs.items) |->
                 [key |-> JsonKey(songs.items[p].key), val |-> songs.items[p].val]])

JsonAlbum(album) == [album EXCEPT !.songs = JsonSongs(album.songs)]

JsonAlbums(albums) ==
    IF albums.none THEN NoneDict
    ELSE Dict([p \in Pos(albums.items) |->
                 [key |-> JsonKey(albums.items[p].key),
                  val |-> JsonAlbum(albums.items[p].val)]])

JsonArtist(artist) ==
    [aid |-> artist.aid,
     name |-> artist.name,
     albums |-> JsonAlbums(artist.albums),
     resume_target |-> JsonList(artist.resume_target),
     scraped |-> EnumEncoder(artist.scraped)]

\* write_target_artists_to_json / update_artist_metadata_on_hdd: the document
\* that open(path, 'w') + json.dump leave in the file.
write_target_artists_to_json(target_artists) ==
    [p \in Pos(target_artists) |->
        [key |-> JsonKey(target_artists[p].key),
         val |-> JsonArtist(target_artists[p].val)]]

\* enum_decoder / scraper_status_decoder: the object hook.  A dict holding
\* "__enum__" becomes getattr(ScraperStatus, member); the type name before
\* the dot is dropped.  Every other dict is returned with its keys as read.
enum_decoder(json_dict) == json_dict.enum[2]

\* load_web_scraper_target_urls / get_scraper_metadata: json.load with the
\* hook, then {int(k): v for k, v in ...items()} on the top level only.  A
\* record comes back with the fields the file has for it, no more: nothing
\* checks that a field is there.
LoadArtist(doc) ==
    [f \in DOMAIN doc |-> IF f = "scraped" THEN enum_decoder(doc[f]) ELSE doc[f]]

\* (A load that hands the entries back last first; kept to show that C21
\* tells it from load_web_scraper_target_urls.)
load_last_first(doc) ==
    [p \in Pos(doc) |-> [key |-> I(doc[Len(doc) + 1 - p].key.n),
                         val |-> LoadArtist(doc[Len(doc) + 1 - p].val)]]

load_web_scraper_target_urls(doc) ==
    [p \in Pos(doc) |-> [key |-> I(doc[p].key.n), val |-> LoadArtist(doc[p].val)]]


\* ------------------------------------------------------------------- state
VARIABLES
    prog,           \* the script or operation being run: "S3", "W2", "W3", "RT", ...
    pc,             \* where that script's process is
    target_artists, \* the artist dict in the process's memory
    disk,           \* the checkpoint file: [exists, doc]
    torn,           \* the file holds no complete document (opened 'w', not yet dumped)
    i,              \* position of the artist loop in target_artists.items()
    j,              \* position of the album loop in the artist's albums
    k,              \* position of the song loop in target_songs
    target_songs,   \* StageThree main's local target_songs (items of the dict)
    files,          \* the songs whose ascii.txt has been written
    not_found,      \* (history) the urls whose fetch raised HTTPError in this run
    transient,      \* (history) those of not_found whose HTTP status was not 404
    restarts,       \* number of times the script has been started again
    exc,            \* the exception that ended the process ("" when none)
    rng,            \* WebScraperTwo main: len(target_artists) taken by range()
    artists,        \* WebScraperThree: the dict `artists` is bound to: (key, object)
    iter,           \* WebScraperThree: the dict the for loop iterates: (key, object)
    heap,           \* WebScraperThree: the artist records, by object
    control_interrupt, \* WebScraperThree: [bound, flag, aid]
    loaded,         \* the dict a load returned (round-trip specification)
    listing,        \* discovery: the artist listing pages, each a list of anchors
    missing_dirs,   \* (file system) the directories that could not be made:
                    \* <<artist>> for an artist's, <<artist, album>> for an album's
    args,           \* a function applied on its own: its arguments
    result          \* ... and what the call gave

vars == <<prog, pc, target_artists, disk, torn, i, j, k, target_songs, files, not_found, transient,
          restarts, exc, rng, artists, iter, heap, control_interrupt, loaded, listing,
          missing_dirs, args, result>>

\* What each script leaves alone.
notS3 == <<torn, rng, artists, iter, heap, control_interrupt, loaded, listing, missing_dirs, args, result>>
notW2 == <<torn, k, target_songs, files, not_found, transient, artists, iter, heap, control_interrupt, loaded, listing,
          args, result>>
notW2dirs == <<notW2, missing_dirs>>
notW3 == <<torn, target_artists, j, k, target_songs, files, not_found, transient, rng, loaded, listing,
          args, result>>
notW3dirs == <<notW3, missing_dirs>>

Running == pc \notin {"killed", "crashed", "done"}

\* ------------------------------------------------- WebScraperStageThree.py
\* The checkpoint StageThree starts from is the one the album-metadata pass
\* (WebScraperTwo.main) leaves: every artist at stage_two with resume_target
\* [null, null] and its albums, each with scraped = None and songs = None.
W2Album(alid) == [alid |-> alid, scraped |-> "None", songs |-> NoneDict]

W2Albums(m) == Dict([p \in 1..m |-> [key |-> I(p - 1), val |-> W2Album(p - 1)]])

StageTwoArtist(name, m) ==
    [aid |-> name - 1, name |-> name, albums |-> W2Albums(m),
     resume_target |-> Tuple(None, None), scraped |-> "stage_two"]

StageTwoCheckpoint(n, m) ==
    write_target_artists_to_json(
        [p \in 1..n |-> [key |-> I(p - 1), val |-> StageTwoArtist(p, m[p])]])

InitS3 ==
    /\ prog = "S3"
    /\ \E n \in 1..MaxArtists : \E m \in [1..n -> 1..MaxAlbums] :
          disk = [exists |-> TRUE, doc |-> StageTwoCheckpoint(n, m)]
    /\ target_artists = load_web_scraper_target_urls(disk.doc)
    /\ pc = "artist"
    /\ i = 1 /\ j = 1 /\ k = 1
    /\ target_songs = <<>>
    /\ files = {} /\ not_found = {} /\ transient = {}
    /\ restarts = 0 /\ torn = FALSE
    /\ exc = ""
    /\ rng = 0
    /\ artists = <<>> /\ iter = <<>> /\ heap = <<>>
    /\ control_interrupt = [bound |-> FALSE, flag |-> FALSE, aid |-> [t |-> "none", n |-> 0]]
    /\ loaded = <<>>
    /\ listing = <<>>
    /\ missing_dirs = {}
    /\ args = <<>> /\ result = <<>>

artist_info == target_artists[i].val
albums == artist_info.albums.items
album_info == albums[j].val
aid == target_artists[i].key
alid == albums[j].key

\* The url fetched for the song at position p of the current listing.
SongId(p) == <<artist_info.name, album_info.alid, target_songs[p].val.sid>>

\* for aid, artist_info in target_artists.items(): the loop is over.
S3Return ==
    /\ prog = "S3" /\ pc = "artist" /\ i > Len(target_artists)
    /\ pc' = "done"
    /\ UNCHANGED <<prog, target_artists, disk, i, j, k, target_songs, files, not_found, transient, restarts, exc, notS3>>

\* artist_info['scraped'].value == ScraperStatus.stage_three.value: the else
\* branch, "already scraped and recorded, proceeding".
S3SkipArtist ==
    /\ prog = "S3" /\ pc = "artist" /\ i <= Len(target_artists)
    /\ value(artist_info.scraped) = value("stage_three")
    /\ i' = i + 1
    /\ UNCHANGED <<prog, pc, target_artists, disk, j, k, target_songs, files, not_found, transient, restarts, exc, notS3>>

\* artist_info['scraped'].value != ScraperStatus.stage_three.value: enter the
\* loop over the artist's albums.
S3BeginArtist ==
    /\ prog = "S3" /\ pc = "artist" /\ i <= Len(target_artists)
    /\ value(artist_info.scraped) # value("stage_three")
    /\ pc' = "album" /\ j' = 1
    /\ UNCHANGED <<prog, target_artists, disk, i, k, target_songs, files, not_found, transient, restarts, exc, notS3>>

\* Lines 284-285, reached when the album loop ends and when it is left by
\* break: resume_target = (None, None), scraped = stage_three.  Nothing is
\* written to the file here.
MarkArtistScraped(tree, p) ==
    [tree EXCEPT ![p].val.resume_target = Tuple(None, None),
                    ![p].val.scraped = "stage_three"]

S3FinishArtist ==
    /\ prog = "S3" /\ pc = "album" /\ j > Len(albums)
    /\ target_artists' = MarkArtistScraped(target_artists, i)
    /\ i' = i + 1 /\ pc' = "artist"
    /\ UNCHANGED <<prog, disk, j, k, target_songs, files, not_found, transient, restarts, exc, notS3>>

\* (A test that takes no flag for true; kept to show that C26 tells it from
\* Truthy.)
NeverTruthy(flag) == FALSE

\* if not album_info['scraped']: ... else: "has already been scraped".
Truthy(flag) == flag = "True"

S3SkipAlbum ==
    /\ prog = "S3" /\ pc = "album" /\ j <= Len(albums)
    /\ Truthy(album_info.scraped)
    /\ j' = j + 1
    /\ UNCHANGED <<prog, pc, target_artists, disk, i, k, target_songs, files, not_found, transient, restarts, exc, notS3>>

\* web_scrape_target_songs returns a listing of n songs, keyed 0..n-1 by
\* enumerate, each with 'ascii': None.
NewSongs(n) == [p \in 1..n |-> [key |-> I(p - 1),
                                val |-> [sid |-> p - 1, ascii |-> "None"]]]

S3ListSongs ==
    /\ prog = "S3" /\ pc = "album" /\ j <= Len(albums)
    /\ ~Truthy(album_info.scraped)
    /\ \E n \in 1..MaxSongs : target_songs' = NewSongs(n)
    /\ k' = 1 /\ pc' = "song"
    /\ UNCHANGED <<prog, target_artists, disk, i, j, files, not_found, transient, restarts, exc, notS3>>

\* web_scrape_target_songs catches HTTPError and returns None; main then
\* leaves the album loop by break and runs lines 284-285.
AfterListingFailed(tree, p) == MarkArtistScraped(tree, p)

S3ListFail ==
    /\ prog = "S3" /\ pc = "album" /\ j <= Len(albums)
    /\ ~Truthy(album_info.scraped)
    /\ target_artists' = AfterListingFailed(target_artists, i)
    /\ not_found' = not_found \cup {<<artist_info.name, album_info.alid, -1>>}
    /\ i' = i + 1 /\ pc' = "artist"
    /\ UNCHANGED <<prog, disk, j, k, target_songs, files, transient, restarts, exc, notS3>>

\* web_scrape_song_plaintext returns the text: lines 257-264.
S3FetchSongText ==
    /\ prog = "S3" /\ pc = "song" /\ k <= Len(target_songs)
    /\ target_songs' = [target_songs EXCEPT ![k].val.ascii = "text"]
    /\ target_artists' = [target_artists EXCEPT
                            ![i].val.resume_target = Tuple(alid, target_songs[k].key)]
    /\ files' = files \cup {SongId(k)}
    /\ k' = k + 1
    /\ UNCHANGED <<prog, not_found, transient, pc, disk, i, j, restarts, exc, notS3>>

\* The text was retrieved (lines 257-259 run) but os.makedirs in
\* init_song_storage_dir raises OSError: its handler (lines 233-235) formats
\* the message with err.reason, an attribute OSError does not have, so
\* AttributeError leaves the handler and ends the process.
S3SongDirRaises ==
    /\ prog = "S3" /\ pc = "song" /\ k <= Len(target_songs)
    /\ target_songs' = [target_songs EXCEPT ![k].val.ascii = "text"]
    /\ target_artists' = [target_artists EXCEPT
                            ![i].val.resume_target = Tuple(alid, target_songs[k].key)]
    /\ pc' = "crashed" /\ exc' = "AttributeError"
    /\ UNCHANGED <<prog, disk, i, j, k, files, not_found, transient, restarts, notS3>>

\* web_scrape_song_plaintext catches HTTPError and returns None: the else
\* branch prints a warning and changes nothing.  Here the status is 404.
S3FetchSongNotFound ==
    /\ prog = "S3" /\ pc = "song" /\ k <= Len(target_songs)
    /\ not_found' = not_found \cup {SongId(k)}
    /\ k' = k + 1
    /\ UNCHANGED <<prog, pc, target_artists, disk, i, j, target_songs, files,
                   transient, restarts, exc, notS3>>

\* `except HTTPError` catches every HTTP status, not 404 alone: a 5xx reply
\* takes the same path as a 404 (the message printed says 404 whatever the
\* status was).
S3FetchSongServerError ==
    /\ prog = "S3" /\ pc = "song" /\ k <= Len(target_songs)
    /\ Cardinality(transient) < MaxTransient
    /\ not_found' = not_found \cup {SongId(k)}
    /\ transient' = transient \cup {SongId(k)}
    /\ k' = k + 1
    /\ UNCHANGED <<prog, pc, target_artists, disk, i, j, target_songs, files,
                   restarts, exc, notS3>>

\* Any other failure of a fetch is not caught and ends the process with a
\* traceback: urlopen raising URLError, or (lines 199-212) a song page that
\* matches neither xpath, where both handlers only print and line 212 then
\* reads ascii_xpath, which was never bound.
S3FetchRaises ==
    /\ prog = "S3"
    /\ \/ pc = "song" /\ k <= Len(target_songs)
       \/ pc = "album" /\ j <= Len(albums) /\ ~Truthy(album_info.scraped)
    /\ pc' = "crashed"
    /\ exc' \in IF pc = "song" THEN {"URLError", "UnboundLocalError"} ELSE {"URLError"}
    /\ UNCHANGED <<prog, target_artists, disk, i, j, k, target_songs, files, not_found, transient, restarts, notS3>>

\* Lines 270-274: the song loop is over; the listing goes into the tree, the
\* album is flagged, and the whole tree is written to the file.
AlbumScraped(tree, p, q, songs) ==
    [tree EXCEPT ![p].val.albums.items[q].val.songs = Dict(songs),
                    ![p].val.albums.items[q].val.scraped = "True"]

S3FinishAlbum ==
    /\ prog = "S3" /\ pc = "song" /\ k > Len(target_songs)
    /\ target_artists' = AlbumScraped(target_artists, i, j, target_songs)
    /\ disk' = [exists |-> TRUE, doc |-> write_target_artists_to_json(target_artists')]
    /\ j' = j + 1 /\ pc' = "album"
    /\ UNCHANGED <<prog, i, k, target_songs, files, not_found, transient, restarts, exc, notS3>>

\* The process is killed: its memory is gone, the files stay as they are.
NoInterrupt == [bound |-> FALSE, flag |-> FALSE, aid |-> None]

Kill ==
    /\ prog \in {"S3", "W2", "W3"} /\ Running
    /\ restarts < MaxRestarts
    /\ pc' = "killed"
    /\ target_artists' = <<>> /\ target_songs' = <<>>
    /\ i' = 1 /\ j' = 1 /\ k' = 1 /\ rng' = 0
    /\ artists' = <<>> /\ iter' = <<>> /\ heap' = <<>>
    /\ control_interrupt' = NoInterrupt
    /\ UNCHANGED <<prog, disk, torn, files, not_found, transient, restarts, exc, loaded, listing,
                   missing_dirs, args, result>>

\* __main__: the script is started again and loads the file.
S3Restart ==
    /\ prog = "S3" /\ ~Running
    /\ restarts < MaxRestarts
    /\ restarts' = restarts + 1
    /\ target_artists' = load_web_scraper_target_urls(disk.doc)
    /\ target_songs' = <<>>
    /\ i' = 1 /\ j' = 1 /\ k' = 1
    /\ pc' = "artist"
    /\ UNCHANGED <<prog, disk, files, notS3>>
    /\ exc' = "" /\ not_found' = {} /\ transient' = {}

NextS3 ==
    \/ S3Return \/ S3SkipArtist \/ S3BeginArtist \/ S3FinishArtist
    \/ S3SkipAlbum \/ S3ListSongs \/ S3ListFail
    \/ S3FetchSongText \/ S3SongDirRaises \/ S3FetchSongNotFound \/ S3FetchSongServerError
    \/ S3FetchRaises
    \/ S3FinishAlbum \/ Kill \/ S3Restart

SpecS3 == InitS3 /\ [][NextS3]_vars


\* -------------------------------------------------------- WebScraperTwo.py
InitW2 ==
    /\ prog = "W2"
    /\ disk = [exists |-> FALSE, doc |-> <<>>]
    /\ target_artists = <<>>
    /\ pc = "start"
    /\ i = 1 /\ j = 1 /\ k = 1
    /\ target_songs = <<>>
    /\ files = {} /\ not_found = {} /\ transient = {}
    /\ restarts = 0 /\ torn = FALSE
    /\ exc = ""
    /\ rng = 0
    /\ artists = <<>> /\ iter = <<>> /\ heap = <<>>
    /\ control_interrupt = NoInterrupt
    /\ loaded = <<>>
    /\ listing = <<>>
    /\ missing_dirs = {}
    /\ args = <<>> /\ result = <<>>

Min(set) == CHOOSE p \in set : \A q \in set : p <= q

\* The selector as it would be without the `return` inside the loop: the
\* last hit instead of the first. Kept to show that C4 tells the two apart.
get_last_target_artist(tree) ==
    LET hits == {p \in Pos(tree) : tree[p].val.resume_target.a # None}
    IN  IF hits = {} THEN None
        ELSE tree[CHOOSE p \in hits : \A q \in hits : q <= p].key

\* get_target_artist_to_scrape: the key of the first artist, in items()
\* order, whose resume_target[0] is not None; falls off the end of the loop
\* (returns None) when there is none.
get_target_artist_to_scrape(tree) ==
    LET hits == {p \in Pos(tree) : tree[p].val.resume_target.a # None}
    IN  IF hits = {} THEN None ELSE tree[Min(hits)].key

\* parse_artist_info: artist_identifier = len(target_artists) for each anchor
\* with a url, over the five listing pages in turn; n artists in all.
parse_artist_info(n) ==
    [p \in 1..n |->
        [key |-> I(p - 1),
         val |-> [aid |-> p - 1, name |-> p, albums |-> NoneDict,
                  resume_target |-> Tuple(I(0), I(0)), scraped |-> "stage_zero"]]]

\* __main__, no target_artists.json: web_scrape_artist_meta_data, write it,
\* then main: range(len(target_artists)) is taken once.
W2Discover ==
    /\ prog = "W2" /\ pc = "start" /\ ~disk.exists
    /\ \E n \in 0..MaxArtists : target_artists' = parse_artist_info(n)
    /\ disk' = [exists |-> TRUE, doc |-> write_target_artists_to_json(target_artists')]
    /\ rng' = Len(target_artists') /\ i' = 0
    /\ pc' = "select"
    /\ UNCHANGED <<prog, j, restarts, exc, notW2dirs>>

\* (A start that runs the discovery and writes its result over a file that
\* is there; kept to show that C34 tells it from W2Load.)
W2LoadRediscover ==
    /\ prog = "W2" /\ pc = "start" /\ disk.exists
    /\ \E n \in 0..MaxArtists : target_artists' = parse_artist_info(n)
    /\ disk' = [exists |-> TRUE, doc |-> write_target_artists_to_json(target_artists')]
    /\ rng' = Len(target_artists') /\ i' = 0
    /\ pc' = "select"
    /\ UNCHANGED <<prog, j, restarts, exc, notW2dirs>>

\* __main__, target_artists.json found: load it, then main.
W2Load ==
    /\ prog = "W2" /\ pc = "start" /\ disk.exists
    /\ target_artists' = load_web_scraper_target_urls(disk.doc)
    /\ rng' = Len(target_artists') /\ i' = 0
    /\ pc' = "select"
    /\ UNCHANGED <<prog, disk, j, restarts, exc, notW2dirs>>

\* for i in range(len(target_artists)): the range is used up.
W2Return ==
    /\ prog = "W2" /\ pc = "select" /\ i >= rng
    /\ pc' = "done"
    /\ UNCHANGED <<prog, target_artists, disk, i, j, restarts, exc, rng, notW2dirs>>

\* What is known about the artist's own directory after an attempt to make it.
ArtistDirAfter(missing, artist, made) ==
    IF made THEN missing \ {<<artist>>} ELSE missing \cup {<<artist>>}

\* Lines 273-281: the artist to resume at, its directory (the outcome of
\* initialize_artist_storage_directory is not returned), stage_one.
SelectedStage(tree, p, made) == [tree EXCEPT ![p].val.scraped = "stage_one"]

W2Select ==
    /\ prog = "W2" /\ pc = "select" /\ i < rng
    /\ Lookup(target_artists, get_target_artist_to_scrape(target_artists)) # 0
    /\ j' = Lookup(target_artists, get_target_artist_to_scrape(target_artists))
    /\ \E made \in BOOLEAN :
          /\ target_artists' = SelectedStage(target_artists, j', made)
          /\ missing_dirs' = ArtistDirAfter(missing_dirs, target_artists[j'].val.aid, made)
    /\ pc' = "scrape"
    /\ UNCHANGED <<prog, disk, i, restarts, exc, rng, notW2>>

\* Line 274 when get_target_artist_to_scrape returned None:
\* target_artists[None] raises KeyError, which nothing catches.
W2SelectRaises ==
    /\ prog = "W2" /\ pc = "select" /\ i < rng
    /\ Lookup(target_artists, get_target_artist_to_scrape(target_artists)) = 0
    /\ pc' = "crashed" /\ exc' = "KeyError"
    /\ UNCHANGED <<prog, target_artists, disk, i, j, restarts, rng, notW2dirs>>

\* del target_artists[target_artist['aid']]
Del(tree, key) == SelectSeq(tree, LAMBDA e : e.key # key)

\* web_scrape_albums returned None (HTTPError): lines 306-309, the artist is
\* scrubbed from the dict in memory; the file is not written.
W2Blacklist ==
    /\ prog = "W2" /\ pc = "scrape"
    /\ target_artists' = Del(target_artists, I(target_artists[j].val.aid))
    /\ i' = i + 1 /\ pc' = "select"
    /\ UNCHANGED <<prog, disk, j, restarts, exc, rng, notW2dirs>>

\* (Lines 287-294 without line 288: the resume_target is left as it was.
\* Kept to show that C22 tells it from AlbumsStored.)
AlbumsStoredTargetKept(tree, p, m) ==
    [tree EXCEPT ![p].val.albums = W2Albums(m),
                 ![p].val.scraped = "stage_two"]

\* Lines 287-294: albums, resume_target = (None, None), stage_two.
AlbumsStored(tree, p, m) ==
    [tree EXCEPT ![p].val.albums = W2Albums(m),
                 ![p].val.resume_target = Tuple(None, None),
                 ![p].val.scraped = "stage_two"]

\* os.makedirs raised OSError for the albums in bad of this artist: what is
\* then known about the album directories that do not exist.
DirsAfter(missing, artist, bad) ==
    {d \in missing : ~(Len(d) = 2 /\ d[1] = artist)} \cup {<<artist, a>> : a \in bad}

\* web_scrape_albums returned m albums; initialize_album_storage_directory
\* is called for each (lines 290-291; it prints an OSError and returns);
\* album_metadata.json is written and the whole dict is written to
\* target_artists.json (line 305).
W2StoreAlbums ==
    /\ prog = "W2" /\ pc = "scrape"
    /\ \E m \in 0..MaxAlbums : \E bad \in SUBSET (0..(m - 1)) :
          /\ target_artists' = AlbumsStored(target_artists, j, m)
          /\ missing_dirs' = DirsAfter(missing_dirs, target_artists[j].val.aid, bad)
                                \ {<<target_artists[j].val.aid>>}
    /\ disk' = [exists |-> TRUE, doc |-> write_target_artists_to_json(target_artists')]
    /\ i' = i + 1 /\ pc' = "select"
    /\ UNCHANGED <<prog, j, restarts, exc, rng, notW2>>

\* As above, but opening album_metadata.json raises OSError: the artist is
\* deleted (line 302) and the dict without it is written (line 305).
W2StoreAlbumsOSError ==
    /\ prog = "W2" /\ pc = "scrape"
    /\ \E m \in 0..MaxAlbums : \E bad \in SUBSET (0..(m - 1)) :
          missing_dirs' = DirsAfter(missing_dirs, target_artists[j].val.aid, bad)
    /\ target_artists' = Del(target_artists, I(target_artists[j].val.aid))
    /\ disk' = [exists |-> TRUE, doc |-> write_target_artists_to_json(target_artists')]
    /\ i' = i + 1 /\ pc' = "select"
    /\ UNCHANGED <<prog, j, restarts, exc, rng, notW2>>

\* urlopen raises something other than HTTPError, or the page has fewer rows
\* than the xpath loop indexes: nothing catches it.
W2ScrapeRaises ==
    /\ prog = "W2" /\ pc = "scrape"
    /\ pc' = "crashed" /\ exc' = "URLError"
    /\ UNCHANGED <<prog, target_artists, disk, i, j, restarts, rng, notW2dirs>>

\* The script is started again.
W2Restart ==
    /\ prog = "W2" /\ ~Running
    /\ restarts < MaxRestarts
    /\ restarts' = restarts + 1
    /\ target_artists' = <<>>
    /\ i' = 1 /\ j' = 1 /\ rng' = 0
    /\ pc' = "start" /\ exc' = ""
    /\ UNCHANGED <<prog, disk, notW2dirs>>

NextW2 ==
    \/ W2Discover \/ W2Load \/ W2Return \/ W2Select \/ W2SelectRaises
    \/ W2Blacklist \/ W2StoreAlbums \/ W2StoreAlbumsOSError \/ W2ScrapeRaises
    \/ Kill \/ W2Restart

SpecW2 == InitW2 /\ [][NextW2]_vars


\* ------------------------------------------ WebScraperThree.py scrape_albums
\* WebScraperThree keeps the same record under the field names 'AID' and
\* 'scrape_status' (here aid and scraped) and has no 'albums' field (NoneDict
\* throughout).  Records are objects shared between the dict the loop
\* iterates and the dicts remove_artist_from_metadata builds, so the dicts
\* hold references (the artist's name) into heap.
TreeOf(dict, objects) ==
    [p \in Pos(dict) |-> [key |-> dict[p].key, val |-> objects[dict[p].val]]]

\* update_artist_metadata_on_hdd, and the inline json.dump(artists, fp,
\* cls=ScraperStatusEncoder) of scrape_albums.
update_artist_metadata_on_hdd(tree) ==
    [p \in Pos(tree) |-> [key |-> JsonKey(tree[p].key), val |-> JsonArtist(tree[p].val)]]

\* get_scraper_metadata: json.load with scraper_status_decoder, int(k) on the
\* top-level keys, OrderedDict.
get_scraper_metadata(doc) ==
    [p \in Pos(doc) |-> [key |-> I(doc[p].key.n), val |-> LoadArtist(doc[p].val)]]

\* The checkpoint scrape_albums starts from is the one scrape_artists leaves
\* (init_artists_storage_dirs): n artists keyed 0..n-1 at stage_one, with the
\* resume_target (-1, -1) that parse_artist_info gave them.
StageOneArtist(name) ==
    [aid |-> name - 1, name |-> name, albums |-> NoneDict,
     resume_target |-> Tuple(I(-1), I(-1)), scraped |-> "stage_one"]

StageOneCheckpoint(n) ==
    update_artist_metadata_on_hdd(
        [p \in 1..n |-> [key |-> I(p - 1), val |-> StageOneArtist(p)]])

InitW3 ==
    /\ prog = "W3"
    /\ \E n \in 1..MaxArtists :
          disk = [exists |-> TRUE, doc |-> StageOneCheckpoint(n)]
    /\ target_artists = <<>>
    /\ pc = "start"
    /\ i = 1 /\ j = 1 /\ k = 1
    /\ target_songs = <<>>
    /\ files = {} /\ not_found = {} /\ transient = {}
    /\ restarts = 0 /\ torn = FALSE
    /\ exc = ""
    /\ rng = 0
    /\ artists = <<>> /\ iter = <<>> /\ heap = <<>>
    /\ control_interrupt = NoInterrupt
    /\ loaded = <<>>
    /\ listing = <<>>
    /\ missing_dirs = {}
    /\ args = <<>> /\ result = <<>>

\* Line 635, and the start of the for loop over artists.items().
W3Load ==
    /\ prog = "W3" /\ pc = "start"
    /\ LET tree == get_scraper_metadata(disk.doc)
       IN  /\ artists' = [p \in Pos(tree) |-> [key |-> tree[p].key, val |-> tree[p].val.name]]
           /\ heap' = [nm \in {tree[p].val.name : p \in Pos(tree)} |->
                          tree[CHOOSE p \in Pos(tree) : tree[p].val.name = nm].val]
    /\ iter' = artists'
    /\ i' = 1 /\ pc' = "loop"
    /\ UNCHANGED <<prog, disk, restarts, exc, control_interrupt, notW3dirs>>

\* The (aid, artist_info) pair the for loop is at.
loop_aid == iter[i].key
loop_artist == iter[i].val

\* artist_info['scrape_status'] != ScraperStatus.stage_three is False.
W3SkipArtist ==
    /\ prog = "W3" /\ pc = "loop" /\ i <= Len(iter)
    /\ value(heap[loop_artist].scraped) = value("stage_three")
    /\ i' = i + 1
    /\ UNCHANGED <<prog, pc, disk, restarts, exc, artists, iter, heap,
                   control_interrupt, notW3dirs>>

\* The removal as it would be with `del`: the other entries under the keys
\* they had.  Kept to show that C17 tells the two apart.
remove_keeping_keys(dict, key) == SelectSeq(dict, LAMBDA e : e.key # key)

\* remove_artist_from_metadata: the dict of the entries whose key is not aid,
\* keyed 0, 1, ... in their order, and the 'AID' field of each of its records
\* set to its new key.
remove_artist_from_metadata(dict, key) ==
    LET kept == SelectSeq(dict, LAMBDA e : e.key # key)
    IN  [q \in Pos(kept) |-> [key |-> I(q - 1), val |-> kept[q].val]]

\* Lines 538-539 left out: the records keep the AID they had.  Kept to show
\* that C18 tells the two apart.
StaleAIDs(objects, updated_artists) == objects

UpdatedAIDs(objects, updated_artists) ==
    [nm \in DOMAIN objects |->
        IF \E q \in Pos(updated_artists) : updated_artists[q].val = nm
        THEN [objects[nm] EXCEPT !.aid =
                 updated_artists[CHOOSE q \in Pos(updated_artists) :
                                    updated_artists[q].val = nm].key.n]
        ELSE objects[nm]]

\* init_artist_storage_dir returned False: control_interrupt = (True, aid),
\* break, then lines 691-692; the function returns without writing the file.
W3InitDirFails ==
    /\ prog = "W3" /\ pc = "loop" /\ i <= Len(iter)
    /\ value(heap[loop_artist].scraped) # value("stage_three")
    /\ control_interrupt' = [bound |-> TRUE, flag |-> TRUE, aid |-> loop_aid]
    /\ artists' = remove_artist_from_metadata(artists, loop_aid)
    /\ heap' = UpdatedAIDs(heap, artists')
    /\ missing_dirs' = ArtistDirAfter(missing_dirs, loop_artist, FALSE)
    /\ pc' = "done"
    /\ UNCHANGED <<prog, disk, i, restarts, exc, iter, notW3>>

\* (The assignment left out: the record keeps the stage it had.  Kept to show
\* that C28 tells it from AssignStageOne.)
AssignNoStage(objects, ref) == objects

\* Line 648: artists[aid]['scrape_status'] = ScraperStatus.stage_one, with
\* aid the key the loop read from the dict it iterates.
AssignStageOne(objects, ref) == [objects EXCEPT ![ref].scraped = "stage_one"]

W3InitDir ==
    /\ prog = "W3" /\ pc = "loop" /\ i <= Len(iter)
    /\ value(heap[loop_artist].scraped) # value("stage_three")
    /\ Lookup(artists, loop_aid) # 0
    /\ heap' = AssignStageOne(heap, artists[Lookup(artists, loop_aid)].val)
    /\ missing_dirs' = ArtistDirAfter(missing_dirs, loop_artist, TRUE)
    /\ pc' = "scrape"
    /\ UNCHANGED <<prog, disk, i, restarts, exc, artists, iter,
                   control_interrupt, notW3>>

\* Line 648 or 659 when the dict `artists` is now bound to has no key aid.
W3StaleKeyRaises ==
    /\ prog = "W3" /\ pc \in {"loop", "scrape"} /\ i <= Len(iter)
    /\ value(heap[loop_artist].scraped) # value("stage_three")
    /\ Lookup(artists, loop_aid) = 0
    /\ pc' = "crashed" /\ exc' = "KeyError"
    /\ UNCHANGED <<prog, disk, i, restarts, artists, iter, heap,
                   control_interrupt, notW3dirs>>

\* web_scrape_albums returned None (web_scrape_table_display): lines 681-685.
W3RemoveArtist ==
    /\ prog = "W3" /\ pc = "scrape"
    /\ artists' = remove_artist_from_metadata(artists, I(heap[loop_artist].aid))
    /\ heap' = UpdatedAIDs(heap, artists')
    /\ disk' = [exists |-> TRUE,
                doc |-> update_artist_metadata_on_hdd(TreeOf(artists', heap'))]
    /\ i' = i + 1 /\ pc' = "loop"
    /\ UNCHANGED <<prog, restarts, exc, iter, control_interrupt, notW3dirs>>

\* web_scrape_albums returned a dict of m albums (empty for a page that is
\* unavailable or of unknown layout): lines 654-675.  stage_two goes to
\* artists[aid]; stage_three goes to artists[album_info['assoc_aid']] for
\* every album whose directory exists or could be made (any_dir): of the m
\* albums, os.makedirs raised OSError (caught and printed, line 669) for
\* those in bad.
AssignAlbumStages(objects, dict, old_key, ref, any_dir) ==
    LET two == [objects EXCEPT ![dict[Lookup(dict, old_key)].val].scraped = "stage_two"]
        own == Lookup(dict, I(objects[ref].aid))
    IN  IF any_dir /\ own # 0
        THEN [two EXCEPT ![dict[own].val].scraped = "stage_three"]
        ELSE two

W3StoreAlbums ==
    /\ prog = "W3" /\ pc = "scrape"
    /\ Lookup(artists, loop_aid) # 0
    /\ \E m \in 0..MaxAlbums : \E bad \in SUBSET (0..(m - 1)) :
          /\ heap' = AssignAlbumStages(heap, artists, loop_aid, loop_artist,
                                       bad # 0..(m - 1))
          /\ missing_dirs' = DirsAfter(missing_dirs, loop_artist, bad)
    /\ disk' = [exists |-> TRUE,
                doc |-> update_artist_metadata_on_hdd(TreeOf(artists, heap'))]
    /\ i' = i + 1 /\ pc' = "loop"
    /\ UNCHANGED <<prog, restarts, exc, artists, iter, control_interrupt, notW3>>

\* web_scrape_remote_ftp: HTTPError on its own urlopen.  The handler formats
\* its message with artist_info['aid'] (the field is 'AID'), which raises
\* KeyError before the exit(-1) below it is reached; either way the process
\* ends here.
W3ScrapeExits ==
    /\ prog = "W3" /\ pc = "scrape"
    /\ pc' = "crashed" /\ exc' = "KeyError in the HTTPError handler"
    /\ UNCHANGED <<prog, disk, i, restarts, artists, iter, heap,
                   control_interrupt, notW3dirs>>

\* Line 691 after a loop that never broke: control_interrupt was never
\* assigned in this function.
W3LoopEnds ==
    /\ prog = "W3" /\ pc = "loop" /\ i > Len(iter)
    /\ ~control_interrupt.bound
    /\ pc' = "crashed" /\ exc' = "UnboundLocalError"
    /\ UNCHANGED <<prog, disk, i, restarts, artists, iter, heap,
                   control_interrupt, notW3dirs>>

W3Restart ==
    /\ prog = "W3" /\ ~Running
    /\ restarts < MaxRestarts
    /\ restarts' = restarts + 1
    /\ artists' = <<>> /\ iter' = <<>> /\ heap' = <<>>
    /\ control_interrupt' = NoInterrupt
    /\ i' = 1
    /\ pc' = "start" /\ exc' = ""
    /\ UNCHANGED <<prog, disk, notW3dirs>>

NextW3 ==
    \/ W3Load \/ W3SkipArtist \/ W3InitDirFails \/ W3InitDir \/ W3StaleKeyRaises
    \/ W3RemoveArtist \/ W3StoreAlbums \/ W3ScrapeExits \/ W3LoopEnds
    \/ Kill \/ W3Restart

SpecW3 == InitW3 /\ [][NextW3]_vars


\* --------------------------------------------------- checkpoint round trip
\* Trees of up to RTArtists artists as the scripts build them: keys and
\* identifiers are integers, resume_target is a tuple, scraped a member of
\* ScraperStatus, albums None or a dict of albums, songs None or a dict.
RTSong == [sid |-> 0, ascii |-> "text"]

RTAlbums ==
    {NoneDict,
     Dict(<<[key |-> I(0), val |-> W2Album(0)]>>),
     Dict(<<[key |-> I(0),
             val |-> [alid |-> 0, scraped |-> "True",
                      songs |-> Dict(<<[key |-> I(0), val |-> RTSong]>>)]]>>),
     Dict(<<[key |-> I(0),
             val |-> [alid |-> 0, scraped |-> "True",
                      songs |-> Dict(<<[key |-> I(0), val |-> RTSong],
                                       [key |-> I(1), val |-> [sid |-> 1, ascii |-> "None"]]>>)]],
            [key |-> I(1), val |-> W2Album(1)]>>)}

RTResume == {Tuple(I(0), I(0)), Tuple(None, None)}

RTTrees ==
    UNION {
        {[p \in 1..n |->
            [key |-> I(p - 1),
             val |-> [aid |-> p - 1, name |-> p, albums |-> f[p].al,
                      resume_target |-> f[p].rt, scraped |-> f[p].st]]] :
           f \in [1..n -> [al : RTAlbums, rt : RTResume, st : ScraperStatus]]} :
        n \in 0..RTArtists}

InitRT ==
    /\ prog = "RT"
    /\ target_artists \in RTTrees
    /\ disk = [exists |-> FALSE, doc |-> <<>>]
    /\ pc = "start"
    /\ i = 1 /\ j = 1 /\ k = 1
    /\ target_songs = <<>>
    /\ files = {} /\ not_found = {} /\ transient = {}
    /\ restarts = 0 /\ torn = FALSE
    /\ exc = ""
    /\ rng = 0
    /\ artists = <<>> /\ iter = <<>> /\ heap = <<>>
    /\ control_interrupt = NoInterrupt
    /\ loaded = <<>>
    /\ listing = <<>>
    /\ missing_dirs = {}
    /\ args = <<>> /\ result = <<>>

notRT == <<prog, torn, target_artists, i, j, k, target_songs, files, not_found, transient,
           restarts, exc, rng, artists, iter, heap, control_interrupt, listing, missing_dirs, args, result>>

\* write_target_artists_to_json(target_artists, path)
RTSave ==
    /\ prog = "RT" /\ pc = "start"
    /\ disk' = [exists |-> TRUE, doc |-> write_target_artists_to_json(target_artists)]
    /\ pc' = "saved"
    /\ UNCHANGED <<loaded, notRT>>

\* load_web_scraper_target_urls(path)
RTLoad ==
    /\ prog = "RT" /\ pc = "saved"
    /\ loaded' = load_web_scraper_target_urls(disk.doc)
    /\ pc' = "loaded"
    /\ UNCHANGED <<disk, notRT>>

NextRT == RTSave \/ RTLoad

SpecRT == InitRT /\ [][NextRT]_vars

\* ------------------------------------------------- the save, step by step
\* write_target_artists_to_json and update_artist_metadata_on_hdd are
\*     with open(path, 'w') as fp:  json.dump(tree, fp, ...)
\* on the checkpoint's own path.  open(..., 'w') truncates the file; json.dump
\* then writes the document piece by piece.  The file the save starts from
\* is a checkpoint of the discovery pass.
InitST ==
    /\ prog = "ST"
    /\ target_artists \in RTTrees
    /\ \E n \in 0..RTArtists :
          disk = [exists |-> TRUE,
                  doc |-> write_target_artists_to_json(parse_artist_info(n))]
    /\ pc = "start"
    /\ i = 1 /\ j = 1 /\ k = 1
    /\ target_songs = <<>>
    /\ files = {} /\ not_found = {} /\ transient = {}
    /\ restarts = 0 /\ torn = FALSE
    /\ exc = ""
    /\ rng = 0
    /\ artists = <<>> /\ iter = <<>> /\ heap = <<>>
    /\ control_interrupt = NoInterrupt
    /\ loaded = <<>>
    /\ listing = <<>>
    /\ missing_dirs = {}
    /\ args = <<>> /\ result = <<>>

notST == <<prog, target_artists, i, j, k, target_songs, files, not_found, transient,
           restarts, rng, artists, iter, heap, control_interrupt, listing, missing_dirs, args, result>>

\* open(write_dir, 'w'): the file is emptied.
STOpen ==
    /\ prog = "ST" /\ pc = "start"
    /\ disk' = [exists |-> TRUE, doc |-> <<>>] /\ torn' = TRUE
    /\ pc' = "open"
    /\ UNCHANGED <<exc, loaded, notST>>

\* json.dump runs to its end and the with block closes the file.
STDump ==
    /\ prog = "ST" /\ pc = "open"
    /\ disk' = [exists |-> TRUE, doc |-> write_target_artists_to_json(target_artists)]
    /\ torn' = FALSE
    /\ pc' = "saved"
    /\ UNCHANGED <<exc, loaded, notST>>

\* A write raises OSError part-way (device full), or the process is killed
\* inside json.dump: the file keeps what had been written so far.
STDumpFails ==
    /\ prog = "ST" /\ pc = "open"
    /\ pc' = "crashed" /\ exc' = "OSError"
    /\ UNCHANGED <<disk, torn, loaded, notST>>

\* The next start of a script reads the file: json.load.
STLoad ==
    /\ prog = "ST" /\ pc \in {"saved", "crashed"} /\ ~torn
    /\ loaded' = load_web_scraper_target_urls(disk.doc)
    /\ pc' = "loaded" /\ exc' = ""
    /\ UNCHANGED <<disk, torn, notST>>

\* json.load on an empty or cut-off file raises JSONDecodeError.
STLoadRaises ==
    /\ prog = "ST" /\ pc \in {"saved", "crashed"} /\ torn
    /\ pc' = "unloadable" /\ exc' = "JSONDecodeError"
    /\ UNCHANGED <<disk, torn, loaded, notST>>

NextST == STOpen \/ STDump \/ STDumpFails \/ STLoad \/ STLoadRaises

SpecST == InitST /\ [][NextST]_vars

\* ------------------------------------------- a checkpoint that was damaged
\* The file is read as it is found.  Records of a damaged file: complete
\* ones, ones lacking 'scraped' or 'albums', and ones whose stage tag names
\* no member of ScraperStatus.
CKComplete ==
    {JsonArtist(StageTwoArtist(1, m)) : m \in 1..MaxAlbums}
        \cup {JsonArtist([StageTwoArtist(1, 1) EXCEPT !.scraped = "stage_three"])}

CKNoScraped ==
    {[f \in DOMAIN r \ {"scraped"} |-> r[f]] : r \in CKComplete}

CKNoAlbums ==
    {[f \in DOMAIN r \ {"albums"} |-> r[f]] : r \in CKComplete}

CKBadTag ==
    {[r EXCEPT !.scraped = [enum |-> <<"ScraperStatus", "stage_nine">>]] : r \in CKComplete}

CKRecords == CKComplete \cup CKNoScraped \cup CKNoAlbums \cup CKBadTag

CKDocs ==
    UNION {{[p \in 1..n |-> [key |-> S(p - 1), val |-> f[p]]] : f \in [1..n -> CKRecords]} :
           n \in 1..MaxArtists}

\* getattr(ScraperStatus, member) finds the member for every tag of the file.
Decodable(doc) ==
    \A p \in Pos(doc) :
        "scraped" \in DOMAIN doc[p].val => doc[p].val.scraped.enum[2] \in ScraperStatus

InitCK ==
    /\ prog = "CK"
    /\ \E doc \in CKDocs : disk = [exists |-> TRUE, doc |-> doc]
    /\ target_artists = <<>>
    /\ pc = "start"
    /\ i = 1 /\ j = 1 /\ k = 1
    /\ target_songs = <<>>
    /\ files = {} /\ not_found = {} /\ transient = {}
    /\ restarts = 0 /\ torn = FALSE
    /\ exc = ""
    /\ rng = 0
    /\ artists = <<>> /\ iter = <<>> /\ heap = <<>>
    /\ control_interrupt = NoInterrupt
    /\ loaded = <<>>
    /\ listing = <<>>
    /\ missing_dirs = {}
    /\ args = <<>> /\ result = <<>>

notCK == <<prog, disk, torn, j, k, target_songs, files, not_found, transient,
           restarts, rng, artists, iter, heap, control_interrupt, loaded, listing, missing_dirs, args, result>>

\* __main__ of WebScraperStageThree: load_web_scraper_target_urls, then main.
CKLoad ==
    /\ prog = "CK" /\ pc = "start" /\ Decodable(disk.doc)
    /\ target_artists' = load_web_scraper_target_urls(disk.doc)
    /\ i' = 1 /\ pc' = "artist"
    /\ UNCHANGED <<exc, notCK>>

\* The hook's getattr raises AttributeError inside json.load.
CKLoadRaises ==
    /\ prog = "CK" /\ pc = "start" /\ ~Decodable(disk.doc)
    /\ pc' = "crashed" /\ exc' = "AttributeError"
    /\ UNCHANGED <<target_artists, i, notCK>>

\* main, lines 240-244, as far as it reads the artist's record:
\* artist_info['scraped'] at 242 and, unless the artist is at stage_three,
\* artist_info['albums'] at 244.  The work on the albums is left out.
FieldsRead(artist) ==
    IF "scraped" \notin DOMAIN artist THEN {"scraped"}
    ELSE IF value(artist.scraped) = value("stage_three") THEN {"scraped"}
    ELSE {"scraped", "albums"}

CKArtist ==
    /\ prog = "CK" /\ pc = "artist" /\ i <= Len(target_artists)
    /\ FieldsRead(target_artists[i].val) \subseteq DOMAIN target_artists[i].val
    /\ i' = i + 1
    /\ UNCHANGED <<pc, target_artists, exc, notCK>>

\* A field main reads is not in the record: KeyError, which nothing catches.
CKArtistRaises ==
    /\ prog = "CK" /\ pc = "artist" /\ i <= Len(target_artists)
    /\ ~(FieldsRead(target_artists[i].val) \subseteq DOMAIN target_artists[i].val)
    /\ pc' = "crashed" /\ exc' = "KeyError"
    /\ UNCHANGED <<target_artists, i, notCK>>

CKReturn ==
    /\ prog = "CK" /\ pc = "artist" /\ i > Len(target_artists)
    /\ pc' = "done"
    /\ UNCHANGED <<target_artists, i, exc, notCK>>

NextCK == CKLoad \/ CKLoadRaises \/ CKArtist \/ CKArtistRaises \/ CKReturn

SpecCK == InitCK /\ [][NextCK]_vars

\* ------------------------------------- remove_artist_from_metadata by itself
\* The function applied to any dict of up to RMArtists artists, whose keys
\* are distinct integers in any order (dense or not), and to any integer aid,
\* in the dict or not.  iter keeps the dict as it was before the call;
\* control_interrupt.aid keeps the argument.
RMKeys == 0..RMArtists

RMDicts ==
    UNION {{[p \in 1..n |-> [key |-> I(f[p]), val |-> p]] :
               f \in {g \in [1..n -> RMKeys] : \A a, b \in 1..n : a # b => g[a] # g[b]}} :
           n \in 0..RMArtists}

InitRM ==
    /\ prog = "RM"
    /\ artists \in RMDicts
    /\ iter = artists
    /\ heap = [nm \in {artists[p].val : p \in Pos(artists)} |->
                 [StageOneArtist(nm) EXCEPT
                     !.aid = artists[CHOOSE p \in Pos(artists) : artists[p].val = nm].key.n]]
    /\ target_artists = <<>>
    /\ disk = [exists |-> FALSE, doc |-> <<>>]
    /\ pc = "start"
    /\ i = 1 /\ j = 1 /\ k = 1
    /\ target_songs = <<>>
    /\ files = {} /\ not_found = {} /\ transient = {}
    /\ restarts = 0 /\ torn = FALSE
    /\ exc = ""
    /\ rng = 0
    /\ control_interrupt = NoInterrupt
    /\ loaded = <<>>
    /\ listing = <<>>
    /\ missing_dirs = {}
    /\ args = <<>> /\ result = <<>>

\* artists = remove_artist_from_metadata(artists=artists, aid=aid)
RMRemove ==
    /\ prog = "RM" /\ pc = "start"
    /\ \E a \in RMKeys :
          /\ control_interrupt' = [bound |-> TRUE, flag |-> TRUE, aid |-> I(a)]
          /\ artists' = remove_artist_from_metadata(artists, I(a))
    /\ heap' = UpdatedAIDs(heap, artists')
    /\ pc' = "removed"
    /\ UNCHANGED <<prog, target_artists, disk, torn, i, j, k, target_songs, files,
                   not_found, transient, restarts, exc, rng, iter, loaded, listing, missing_dirs, args, result>>

NextRM == RMRemove

SpecRM == InitRM /\ [][NextRM]_vars

\* ------------------------------------------- PhoneticTranscriber.py __main__
\* The transcriber starts from the checkpoint of the song pass, whatever tree
\* that pass has written to target_artists_stage_three.json.
InitPT ==
    /\ prog = "PT"
    /\ \E tree \in RTTrees :
          disk = [exists |-> TRUE, doc |-> write_target_artists_to_json(tree)]
    /\ target_artists = <<>>
    /\ pc = "start"
    /\ i = 1 /\ j = 1 /\ k = 1
    /\ target_songs = <<>>
    /\ files = {} /\ not_found = {} /\ transient = {}
    /\ restarts = 0 /\ torn = FALSE
    /\ exc = ""
    /\ rng = 0
    /\ artists = <<>> /\ iter = <<>> /\ heap = <<>>
    /\ control_interrupt = NoInterrupt
    /\ loaded = <<>>
    /\ listing = <<>>
    /\ missing_dirs = {}
    /\ args = <<>> /\ result = <<>>

notPT == <<prog, i, j, k, target_songs, files, not_found, transient, restarts,
           rng, artists, iter, heap, control_interrupt, loaded, listing, missing_dirs, args, result>>

\* Line 370: load_web_scraper_target_urls(target_artists_loc).
PTLoad ==
    /\ prog = "PT" /\ pc = "start"
    /\ target_artists' = load_web_scraper_target_urls(disk.doc)
    /\ pc' = "flags"
    /\ UNCHANGED <<disk, torn, exc, notPT>>

\* Lines 376-385: every song that has no 'transcribed' field gets
\* 'transcribed': False; an album whose songs are None is reported and passed.
Transcribable(song) ==
    [f \in DOMAIN song \cup {"transcribed"} |->
        IF f \in DOMAIN song THEN song[f] ELSE "False"]

WithTranscribedFlags(tree) ==
    [p \in Pos(tree) |->
        [tree[p] EXCEPT !.val.albums.items =
            [q \in Pos(@) |->
                [@[q] EXCEPT !.val.songs.items =
                    [r \in Pos(@) |-> [@[r] EXCEPT !.val = Transcribable(@)]]]]]]

PTAddFlags ==
    /\ prog = "PT" /\ pc = "flags"
    /\ \A p \in Pos(target_artists) : ~target_artists[p].val.albums.none
    /\ target_artists' = WithTranscribedFlags(target_artists)
    /\ pc' = "write"
    /\ UNCHANGED <<disk, torn, exc, notPT>>

\* Line 377 for an artist whose 'albums' is None: None has no items();
\* the try of line 382 does not enclose this line.
PTFlagsRaise ==
    /\ prog = "PT" /\ pc = "flags"
    /\ \E p \in Pos(target_artists) : target_artists[p].val.albums.none
    /\ pc' = "crashed" /\ exc' = "AttributeError"
    /\ UNCHANGED <<target_artists, disk, torn, notPT>>

\* Line 393: open(target_artists_loc, 'w') empties the checkpoint.
PTOpen ==
    /\ prog = "PT" /\ pc = "write"
    /\ disk' = [exists |-> TRUE, doc |-> <<>>] /\ torn' = TRUE
    /\ pc' = "open"
    /\ UNCHANGED <<target_artists, exc, notPT>>

\* Line 394: json.dump(fp, target_artists, ...) has its first two arguments
\* the wrong way round: the object to encode is the file, which no encoder
\* accepts, so TypeError is raised before anything is written.
PTDumpRaises ==
    /\ prog = "PT" /\ pc = "open"
    /\ pc' = "crashed" /\ exc' = "TypeError"
    /\ UNCHANGED <<target_artists, disk, torn, notPT>>

NextPT == PTLoad \/ PTAddFlags \/ PTFlagsRaise \/ PTOpen \/ PTDumpRaises

SpecPT == InitPT /\ [][NextPT]_vars

\* ----------------------------------------------- PhoneticTranscriber.py main
\* main as it runs when __main__ reaches it (update_metadata False), on the
\* trees the song-scraping pass writes: every artist has a dict of albums; an
\* album has its songs, or None where the listing was never stored; a song
\* has its text, or None where the fetch gave nothing.
TMTrees == {tree \in RTTrees : \A p \in Pos(tree) : ~tree[p].val.albums.none}

InitTM ==
    /\ prog = "TM" /\ pc = "artist"
    /\ \E tree \in TMTrees :
          target_artists = load_web_scraper_target_urls(write_target_artists_to_json(tree))
    /\ disk = [exists |-> TRUE, doc |-> write_target_artists_to_json(target_artists)]
    /\ i = 1 /\ j = 1 /\ k = 1
    /\ target_songs = <<>>
    /\ files = {} /\ not_found = {} /\ transient = {}
    /\ restarts = 0 /\ torn = FALSE
    /\ exc = ""
    /\ rng = 0
    /\ artists = <<>> /\ iter = <<>> /\ heap = <<>>
    /\ control_interrupt = NoInterrupt
    /\ loaded = <<>>
    /\ listing = <<>>
    /\ missing_dirs = {}
    /\ args = <<>> /\ result = <<>>

notTM == <<prog, target_artists, disk, torn, target_songs, not_found, transient, restarts,
           rng, artists, iter, heap, control_interrupt, loaded, listing, missing_dirs,
           args, result>>

\* The song the loop of line 341 is at.
song_info == album_info.songs.items[k].val

\* Line 337: the loop over target_artists.items() is over.
TMReturn ==
    /\ prog = "TM" /\ pc = "artist" /\ i > Len(target_artists)
    /\ pc' = "done"
    /\ UNCHANGED <<i, j, k, files, exc, notTM>>

\* Line 339: the loop over the artist's albums begins.
TMBeginArtist ==
    /\ prog = "TM" /\ pc = "artist" /\ i <= Len(target_artists)
    /\ pc' = "album" /\ j' = 1
    /\ UNCHANGED <<i, k, files, exc, notTM>>

TMEndArtist ==
    /\ prog = "TM" /\ pc = "album" /\ j > Len(albums)
    /\ pc' = "artist" /\ i' = i + 1
    /\ UNCHANGED <<j, k, files, exc, notTM>>

\* Line 341: album_info['songs'].items().
TMBeginAlbum ==
    /\ prog = "TM" /\ pc = "album" /\ j <= Len(albums)
    /\ ~album_info.songs.none
    /\ pc' = "song" /\ k' = 1
    /\ UNCHANGED <<i, j, files, exc, notTM>>

\* Line 341 for an album whose 'songs' is None: None has no items().
TMSongsRaise ==
    /\ prog = "TM" /\ pc = "album" /\ j <= Len(albums)
    /\ album_info.songs.none
    /\ pc' = "crashed" /\ exc' = "AttributeError"
    /\ UNCHANGED <<i, j, k, files, notTM>>

TMEndAlbum ==
    /\ prog = "TM" /\ pc = "song" /\ k > Len(album_info.songs.items)
    /\ pc' = "album" /\ j' = j + 1
    /\ UNCHANGED <<i, k, files, exc, notTM>>

\* Lines 343-358: the text is tokenized and transcribed, and
\* transcript_stats.json is written under the song's directory.
TMTranscribe ==
    /\ prog = "TM" /\ pc = "song" /\ k <= Len(album_info.songs.items)
    /\ song_info.ascii # "None"
    /\ files' = files \cup {<<artist_info.name, album_info.alid, song_info.sid>>}
    /\ k' = k + 1
    /\ UNCHANGED <<pc, i, j, exc, notTM>>

\* Line 346 for a song whose 'ascii' is None: tokenize_lines calls
\* str.split(plain_text, sep='\n') (line 309), which raises TypeError for
\* an argument that is no str.
TMTokenizeRaises ==
    /\ prog = "TM" /\ pc = "song" /\ k <= Len(album_info.songs.items)
    /\ song_info.ascii = "None"
    /\ pc' = "crashed" /\ exc' = "TypeError"
    /\ UNCHANGED <<i, j, k, files, notTM>>

NextTM ==
    \/ TMReturn \/ TMBeginArtist \/ TMEndArtist \/ TMBeginAlbum \/ TMSongsRaise
    \/ TMEndAlbum \/ TMTranscribe \/ TMTokenizeRaises

SpecTM == InitTM /\ [][NextTM]_vars

\* ------------------------------------ WebScraperThree.py web_scrape_artists
\* The listing pages are parsed one after the other into one dict.  A page
\* is its list of anchors; an anchor with no href is a separator.  Anchors
\* are named by their rank over all the pages.
AnchorName(page, q) == (page - 1) * MaxAnchors + q

ListingPages ==
    UNION {{[p \in 1..np |->
               [q \in 1..Len(f[p]) |-> [name |-> AnchorName(p, q), href |-> f[p][q]]]] :
              f \in [1..np -> UNION {[1..len -> BOOLEAN] : len \in 0..MaxAnchors}]} :
           np \in 1..MaxPages}

InitDI ==
    /\ prog = "DI"
    /\ listing \in ListingPages
    /\ missing_dirs = {}
    /\ args = <<>> /\ result = <<>>
    /\ target_artists = <<>>
    /\ disk = [exists |-> FALSE, doc |-> <<>>]
    /\ pc = "pages"
    /\ i = 1 /\ j = 1 /\ k = 1
    /\ target_songs = <<>>
    /\ files = {} /\ not_found = {} /\ transient = {}
    /\ restarts = 0 /\ torn = FALSE
    /\ exc = ""
    /\ rng = 0
    /\ artists = <<>> /\ iter = <<>> /\ heap = <<>>
    /\ control_interrupt = NoInterrupt
    /\ loaded = <<>>

notDI == <<prog, disk, torn, j, k, files, not_found, transient, restarts, rng,
           artists, iter, heap, control_interrupt, loaded, listing, missing_dirs, args, result>>

\* The record parse_artist_info stores under artist_identifier.
DiscoveredArtist(artist_identifier, name) ==
    [aid |-> artist_identifier, name |-> name, albums |-> NoneDict,
     resume_target |-> Tuple(I(-1), I(-1)), scraped |-> "stage_zero"]

\* (The identifier taken from the rank on the page instead of len(artists).
\* Kept to show that C24 tells it from parse_artist_page.)
parse_page_by_rank(dict, anchors) ==
    LET kept == SelectSeq(anchors, LAMBDA a : a.href)
    IN  dict \o [q \in Pos(kept) |->
                   [key |-> I(q - 1), val |-> DiscoveredArtist(q - 1, kept[q].name)]]

\* parse_artist_info(artists, artist_list_url): for every anchor in turn, one
\* with no href raises inside the try and is passed over; every other is
\* stored under artist_identifier = len(artists), the dict growing by one.
parse_artist_page(dict, anchors) ==
    LET kept == SelectSeq(anchors, LAMBDA a : a.href)
    IN  dict \o [q \in Pos(kept) |->
                   [key |-> I(Len(dict) + q - 1),
                    val |-> DiscoveredArtist(Len(dict) + q - 1, kept[q].name)]]

\* artists = parse_artist_info(artists=artists, artist_list_url=...)
DIParsePage ==
    /\ prog = "DI" /\ pc = "pages" /\ i <= Len(listing)
    /\ target_artists' = parse_artist_page(target_artists, listing[i])
    /\ i' = i + 1
    /\ UNCHANGED <<pc, exc, target_songs, notDI>>

\* urlopen(artist_list_url) is in no try: a page that cannot be fetched ends
\* the discovery.
DIParseRaises ==
    /\ prog = "DI" /\ pc = "pages" /\ i <= Len(listing)
    /\ pc' = "crashed" /\ exc' = "URLError"
    /\ UNCHANGED <<target_artists, i, target_songs, notDI>>

\* The albums of the first artist found are listed: enumerate gives the
\* albums their keys.
DIListAlbums ==
    /\ prog = "DI" /\ pc = "pages" /\ i > Len(listing)
    /\ Len(target_artists) > 0
    /\ \E m \in 0..MaxAlbums :
          target_artists' = [target_artists EXCEPT ![1].val.albums = W2Albums(m)]
    /\ pc' = "albums"
    /\ UNCHANGED <<i, exc, target_songs, notDI>>

\* The songs of an album are listed (web_scrape_target_songs).
DIListSongs ==
    /\ prog = "DI" /\ pc = "albums"
    /\ Len(target_artists[1].val.albums.items) > 0
    /\ \E n \in 0..MaxSongs : target_songs' = NewSongs(n)
    /\ pc' = "songs"
    /\ UNCHANGED <<target_artists, i, exc, notDI>>

NextDI == DIParsePage \/ DIParseRaises \/ DIListAlbums \/ DIListSongs

SpecDI == InitDI /\ [][NextDI]_vars

\* ------------------------------------- a pass over a checkpoint that is done
\* The checkpoint a finished pass leaves behind, given to the same pass
\* again: for WebScraperTwo every artist at stage_two with its albums and
\* resume_target (None, None), for scrape_albums every artist at stage_three.
StageThreeCheckpoint(n) ==
    update_artist_metadata_on_hdd(
        [p \in 1..n |-> [key |-> I(p - 1),
                         val |-> [StageOneArtist(p) EXCEPT !.scraped = "stage_three"]]])

DoneCheckpoints(script) ==
    IF script = "W2"
    THEN UNION {{write_target_artists_to_json(
                     [p \in 1..n |-> [key |-> I(p - 1),
                                      val |-> [StageTwoArtist(p, 0) EXCEPT
                                                  !.albums = W2Albums(m[p])]]]) :
                   m \in [1..n -> 0..MaxAlbums]} : n \in 0..MaxArtists}
    ELSE {StageThreeCheckpoint(n) : n \in 1..MaxArtists}

InitAD ==
    /\ prog \in {"W2", "W3"}
    /\ \E doc \in DoneCheckpoints(prog) : disk = [exists |-> TRUE, doc |-> doc]
    /\ target_artists = <<>>
    /\ pc = "start"
    /\ i = 1 /\ j = 1 /\ k = 1
    /\ target_songs = <<>>
    /\ files = {} /\ not_found = {} /\ transient = {}
    /\ restarts = 0 /\ torn = FALSE
    /\ exc = ""
    /\ rng = 0
    /\ artists = <<>> /\ iter = <<>> /\ heap = <<>>
    /\ control_interrupt = NoInterrupt
    /\ loaded = <<>>
    /\ listing = <<>>
    /\ missing_dirs = {}
    /\ args = <<>> /\ result = <<>>

\* The steps of the two passes that such a checkpoint lets happen.
NextAD ==
    \/ W2Load \/ W2Return \/ W2SelectRaises \/ W2Restart
    \/ W3Load \/ W3SkipArtist \/ W3LoopEnds \/ W3Restart
    \/ Kill

SpecAD == InitAD /\ [][NextAD]_vars

\* ---------------------------- WebScraperThree.py init_artists_storage_dirs
\* scrape_artists has discovered n artists (all at stage_zero), written them
\* to the file, and calls init_artists_storage_dirs.  Whether an artist's
\* directory can be made is a matter of its storage_dir, kept here as a field
\* of the record: "makeable" or "unmakeable".
InitID ==
    /\ prog = "ID"
    /\ \E n \in 0..IDArtists : \E dirs \in [1..n -> {"makeable", "unmakeable"}] :
          /\ artists = [p \in 1..n |-> [key |-> I(p - 1), val |-> p]]
          /\ heap = [nm \in 1..n |->
                       [aid |-> nm - 1, name |-> nm, albums |-> NoneDict,
                        resume_target |-> Tuple(I(-1), I(-1)), scraped |-> "stage_zero",
                        storage_dir |-> dirs[nm]]]
    /\ iter = artists
    /\ disk = [exists |-> TRUE, doc |-> update_artist_metadata_on_hdd(TreeOf(artists, heap))]
    /\ target_artists = <<>>
    /\ pc = "for"
    /\ i = 1 /\ j = 1 /\ k = 1
    /\ target_songs = <<>>
    /\ files = {} /\ not_found = {} /\ transient = {}
    /\ restarts = 0 /\ torn = FALSE
    /\ exc = ""
    /\ rng = 0
    /\ control_interrupt = [bound |-> TRUE, flag |-> FALSE, aid |-> None]
    /\ loaded = <<>>
    /\ listing = <<>>
    /\ missing_dirs = {}
    /\ args = <<>> /\ result = <<>>

notID == <<prog, torn, target_artists, j, k, target_songs, files, not_found, transient,
           restarts, exc, rng, loaded, listing, missing_dirs, args, result>>

\* if artist_info['scrape_status'] == ScraperStatus.stage_zero: is False.
IDPassArtist ==
    /\ prog = "ID" /\ pc = "for" /\ i <= Len(iter)
    /\ heap[loop_artist].scraped # "stage_zero"
    /\ i' = i + 1
    /\ UNCHANGED <<pc, disk, artists, iter, heap, control_interrupt, notID>>

\* init_artist_storage_dir returned True: stage_one.
IDInitDir ==
    /\ prog = "ID" /\ pc = "for" /\ i <= Len(iter)
    /\ heap[loop_artist].scraped = "stage_zero"
    /\ heap[loop_artist].storage_dir = "makeable"
    /\ heap' = AssignStageOne(heap, artists[Lookup(artists, loop_aid)].val)
    /\ i' = i + 1
    /\ UNCHANGED <<pc, disk, artists, iter, control_interrupt, notID>>

\* init_artist_storage_dir returned False: control_interrupt = (True, aid),
\* break.
IDInitDirFails ==
    /\ prog = "ID" /\ pc = "for" /\ i <= Len(iter)
    /\ heap[loop_artist].scraped = "stage_zero"
    /\ heap[loop_artist].storage_dir = "unmakeable"
    /\ control_interrupt' = [bound |-> TRUE, flag |-> TRUE, aid |-> loop_aid]
    /\ pc' = "after"
    /\ UNCHANGED <<disk, i, artists, iter, heap, notID>>

\* The for loop has gone through the dict.
IDForEnds ==
    /\ prog = "ID" /\ pc = "for" /\ i > Len(iter)
    /\ pc' = "after"
    /\ UNCHANGED <<disk, i, artists, iter, heap, control_interrupt, notID>>

\* if control_interrupt[0]: the artist is removed, the interrupt is reset and
\* the while loop starts the for loop again on the new dict.
IDRemoveArtist ==
    /\ prog = "ID" /\ pc = "after" /\ control_interrupt.flag
    /\ artists' = remove_artist_from_metadata(artists, control_interrupt.aid)
    /\ heap' = UpdatedAIDs(heap, artists')
    /\ control_interrupt' = [bound |-> TRUE, flag |-> FALSE, aid |-> None]
    /\ iter' = artists' /\ i' = 1
    /\ pc' = "for"
    /\ UNCHANGED <<disk, notID>>

\* else: update_artist_metadata_on_hdd(artists); return.
IDReturn ==
    /\ prog = "ID" /\ pc = "after" /\ ~control_interrupt.flag
    /\ disk' = [exists |-> TRUE, doc |-> update_artist_metadata_on_hdd(TreeOf(artists, heap))]
    /\ pc' = "done"
    /\ UNCHANGED <<i, artists, iter, heap, control_interrupt, notID>>

NextID ==
    \/ IDPassArtist \/ IDInitDir \/ IDInitDirFails \/ IDForEnds
    \/ IDRemoveArtist \/ IDReturn

SpecID == InitID /\ [][NextID]_vars

\* The function is one thread of control: while it can take a step it does.
SpecIDLive == SpecID /\ WF_vars(NextID)

\* ---------------------------------------------- functions applied by themselves
\* A function called on its own: no script runs, args holds the arguments and
\* result what the call gave.
NoScript ==
    /\ target_artists = <<>>
    /\ disk = [exists |-> FALSE, doc |-> <<>>]
    /\ i = 1 /\ j = 1 /\ k = 1
    /\ target_songs = <<>>
    /\ files = {} /\ not_found = {} /\ transient = {}
    /\ restarts = 0 /\ torn = FALSE
    /\ exc = ""
    /\ rng = 0
    /\ artists = <<>> /\ iter = <<>> /\ heap = <<>>
    /\ control_interrupt = NoInterrupt
    /\ loaded = <<>>
    /\ listing = <<>>
    /\ missing_dirs = {}

notCall == <<prog, target_artists, disk, torn, i, j, k, target_songs, files, not_found,
             transient, restarts, exc, rng, artists, iter, heap, control_interrupt,
             loaded, listing, missing_dirs, args>>

\* ------------------------------------------------ the status enums' __eq__
\* A Python object, as far as __eq__ reads it: its type and its value.
Obj(cls, v) == [cls |-> cls, value |-> v]

\* The members: ScraperStatus has the values 0..4, TranscriptionStatus 0..3.
ScraperStatusValues == {value(s) : s \in ScraperStatus}
TranscriptionStatusValues == ScraperStatusValues \ {value("stage_four")}

Members(cls) ==
    IF cls = "ScraperStatus" THEN {Obj(cls, v) : v \in ScraperStatusValues}
    ELSE {Obj(cls, v) : v \in TranscriptionStatusValues}

\* What a member is compared with: the members of both enums, integers in and
\* out of the values' range, None and a string.
EQObjects ==
    Members("ScraperStatus") \cup Members("TranscriptionStatus")
       \cup {Obj("int", v) : v \in ScraperStatusValues \cup {-1}}
       \cup {Obj("NoneType", 0), Obj("str", 0)}

\* ScraperStatus(obj), the lookup Enum does: a member of the class is handed
\* back; a value of the class gives its member; for anything else the search
\* by value finds nothing (the members of the other enum are unhashable, and
\* their own __eq__ answers None to the integer values) and ValueError is
\* raised.
ScraperStatusOf(obj) ==
    IF obj.cls = "ScraperStatus" THEN obj
    ELSE IF obj.cls = "int" /\ obj.value \in ScraperStatusValues
         THEN Obj("ScraperStatus", obj.value)
         ELSE Obj("ValueError", 0)

\* The comparison of the two values, as Python prints it.
PyBool(b) == IF b THEN "True" ELSE "False"

\* WebScraperThree.ScraperStatus.__eq__ and TranscriptionStatus.__eq__: both
\* cast obj with ScraperStatus(obj); an exception of the cast prints and calls
\* exit(-1); with the cast done, an obj of another type than self falls off
\* the end of the method (None).
eq_WebScraperThree(self, obj) ==
    IF ScraperStatusOf(obj).cls = "ValueError" THEN "exit(-1)"
    ELSE IF obj.cls = self.cls THEN PyBool(self.value = ScraperStatusOf(obj).value)
         ELSE "None"

\* WebScraperStageThree.ScraperStatus.__eq__: the exception of the cast is
\* only printed; the type test is outside the try.
eq_WebScraperStageThree(self, obj) ==
    IF obj.cls = self.cls THEN PyBool(self.value = ScraperStatusOf(obj).value)
    ELSE "None"

EQCalls ==
    {[module |-> m, self |-> x, obj |-> y] :
        m \in {"WebScraperThree", "WebScraperStageThree"},
        x \in Members("ScraperStatus") \cup Members("TranscriptionStatus"),
        y \in EQObjects}

InitEQ ==
    /\ prog = "EQ" /\ pc = "call"
    /\ args \in {c \in EQCalls :
                    c.module = "WebScraperStageThree" => c.self.cls = "ScraperStatus"}
    /\ result = <<>>
    /\ NoScript

\* self == obj in WebScraperThree.py: the method returns.
EQReturns ==
    /\ prog = "EQ" /\ pc = "call" /\ args.module = "WebScraperThree"
    /\ eq_WebScraperThree(args.self, args.obj) # "exit(-1)"
    /\ result' = eq_WebScraperThree(args.self, args.obj)
    /\ pc' = "returned"
    /\ UNCHANGED notCall

\* self == obj in WebScraperThree.py: the handler calls exit(-1).
EQExits ==
    /\ prog = "EQ" /\ pc = "call" /\ args.module = "WebScraperThree"
    /\ eq_WebScraperThree(args.self, args.obj) = "exit(-1)"
    /\ result' = "exit(-1)"
    /\ pc' = "exited"
    /\ UNCHANGED notCall

\* self == obj in WebScraperStageThree.py.
EQStageThree ==
    /\ prog = "EQ" /\ pc = "call" /\ args.module = "WebScraperStageThree"
    /\ result' = eq_WebScraperStageThree(args.self, args.obj)
    /\ pc' = "returned"
    /\ UNCHANGED notCall

NextEQ == EQReturns \/ EQExits \/ EQStageThree

SpecEQ == InitEQ /\ [][NextEQ]_vars

\* ---------------------- PhoneticTranscriber.py transcribe_arpabet_via_cmu
\* cmudict.dict(): a dict from words to their pronunciations.  Two words are
\* in it here; the tokens of a song are these or others.
pron_dict == <<[key |-> "a", val |-> "AH0"], [key |-> "b", val |-> "B IY1"]>>

Tokens == {"a", "x", "y"}

\* A line of up to MaxTokens tokens; up to MaxLines lines.
TokenLines == UNION {[1..n -> Tokens] : n \in 0..MaxTokens}

InitTA ==
    /\ prog = "TA" /\ pc = "call"
    /\ args \in UNION {[1..n -> TokenLines] : n \in 0..MaxLines}
    /\ result = <<>>
    /\ NoScript

\* (A count that starts again at 1 each time the token fails; kept to show
\* that C37 tells it from CountFailure.)
CountOnce(failed, token) ==
    IF Lookup(failed, token) # 0
    THEN [failed EXCEPT ![Lookup(failed, token)].val = 1]
    ELSE Append(failed, [key |-> token, val |-> 1])

\* Lines 119-122: failed_transcriptions[token] += 1, or = 1 for a new key.
CountFailure(failed, token) ==
    IF Lookup(failed, token) # 0
    THEN [failed EXCEPT ![Lookup(failed, token)].val = @ + 1]
    ELSE Append(failed, [key |-> token, val |-> 1])

\* Lines 108-122 for one token: the first item of pron_dict whose word is the
\* token is appended and the search stops; with none, the failure is counted.
TranscribeToken(acc, token) ==
    IF Lookup(pron_dict, token) # 0
    THEN [acc EXCEPT !.arpabet_graphones =
             Append(@, <<pron_dict[Lookup(pron_dict, token)].key,
                         pron_dict[Lookup(pron_dict, token)].val>>)]
    ELSE [acc EXCEPT !.failed_transcriptions = CountFailure(@, token)]

RECURSIVE TranscribeLine(_, _)
TranscribeLine(acc, line) ==
    IF line = <<>> THEN acc
    ELSE TranscribeLine(TranscribeToken(acc, Head(line)), Tail(line))

RECURSIVE TranscribeLines(_, _)
TranscribeLines(acc, lines) ==
    IF lines = <<>> THEN acc
    ELSE TranscribeLines(TranscribeLine(acc, Head(lines)), Tail(lines))

transcribe_arpabet_via_cmu(tokenized_words) ==
    TranscribeLines([arpabet_graphones |-> <<>>, failed_transcriptions |-> <<>>],
                    tokenized_words)

TACall ==
    /\ prog = "TA" /\ pc = "call"
    /\ result' = transcribe_arpabet_via_cmu(args)
    /\ pc' = "returned"
    /\ UNCHANGED notCall

NextTA == TACall

SpecTA == InitTA /\ [][NextTA]_vars

\* --------------------------------------- PhoneticTranscriber.py remove_dj_tag
\* A line of a song, as far as remove_dj_tag reads it: a line that holds
\* '[dj]' (in any case), a line that holds another bracketed tag, or a line of
\* lyrics.  num tells the lines of an input apart.
LineKinds == {"dj", "tag", "lyric"}

Lyrics ==
    UNION {{[p \in 1..n |-> [num |-> p, kind |-> f[p]]] : f \in [1..n -> LineKinds]} :
           n \in 0..MaxLyricLines}

\* '[dj]' in str.lower(line); regex.search(r'\[(.*)\]', ...), which a '[dj]'
\* line matches as well.
HasDJ(line) == line.kind = "dj"
Bracketed(line) == line.kind \in {"dj", "tag"}

\* Lines 220-225: the first line that holds '[dj]' (0: none, for None).
dj_start_line_index(lines) ==
    IF \E p \in Pos(lines) : HasDJ(lines[p])
    THEN Min({p \in Pos(lines) : HasDJ(lines[p])})
    ELSE 0

\* Lines 228-235: the first bracketed line after it (0: none, for None).
dj_end_line_index(lines) ==
    LET after == {p \in Pos(lines) : p > dj_start_line_index(lines) /\ Bracketed(lines[p])}
    IN  IF after = {} THEN 0 ELSE Min(after)

\* Lines 240-246: the lines before the start and the lines after the end.
dj_cleaned_text(lines) ==
    SubSeq(lines, 1, dj_start_line_index(lines) - 1)
       \o SubSeq(lines, dj_end_line_index(lines) + 1, Len(lines))

InitDJ ==
    /\ prog = "DJ" /\ pc = "call"
    /\ args \in Lyrics
    /\ result = <<>>
    /\ NoScript

\* No '[dj]' line: the input is returned (line 238).  Otherwise, with a
\* bracketed line after it, the cleaned text is (line 246).
DJReturns ==
    /\ prog = "DJ" /\ pc = "call"
    /\ dj_start_line_index(args) # 0 => dj_end_line_index(args) # 0
    /\ result' = IF dj_start_line_index(args) = 0 THEN args ELSE dj_cleaned_text(args)
    /\ pc' = "returned"
    /\ UNCHANGED notCall

\* A '[dj]' line with no bracketed line after it: dj_end_line_index is still
\* None when the loop of line 241 reaches the '[dj]' line, and
\* line_num > None (line 244) raises TypeError.
DJRaises ==
    /\ prog = "DJ" /\ pc = "call"
    /\ dj_start_line_index(args) # 0 /\ dj_end_line_index(args) = 0
    /\ result' = "TypeError"
    /\ pc' = "raised"
    /\ UNCHANGED notCall

NextDJ == DJReturns \/ DJRaises

SpecDJ == InitDJ /\ [][NextDJ]_vars

\* ------------------ SpotifyTrackListGenerator.py get_artists_top_ten_tracks
\* sp_top_tracks['tracks'][:10]
TopTracks == 10

\* What sp.artist_top_tracks gives for an artist: a list of tracks, no track
\* twice, here by their uris; up to MaxTracks of a few tracks that artists
\* share, or one list longer than the slice.
TrackLists ==
    UNION {{f \in [1..n -> 1..(MaxTracks + 1)] : \A a, b \in 1..n : a # b => f[a] # f[b]} :
           n \in 0..MaxTracks}
       \cup {[p \in 1..(TopTracks + 1) |-> p]}

\* hip_hop_artists: up to SPArtists artists, each with its top tracks.
InitTT ==
    /\ prog = "TT" /\ pc = "call"
    /\ args \in UNION {{[p \in 1..n |-> [name |-> p, tracks |-> f[p]]] :
                           f \in [1..n -> TrackLists]} : n \in 0..SPArtists}
    /\ result = <<>>
    /\ NoScript

\* Lines 78-86: `track['uri'] not in hip_hop_tracks` asks whether the uri, a
\* string, is a key of the dict; the new entry goes under len(hip_hop_tracks).
AddTrack(hip_hop_tracks, artist_name, uri) ==
    IF Lookup(hip_hop_tracks, S(uri)) = 0
    THEN Append(hip_hop_tracks,
                [key |-> I(Len(hip_hop_tracks)),
                 val |-> [uri |-> S(uri), artist |-> artist_name]])
    ELSE hip_hop_tracks

RECURSIVE AddTracks(_, _, _)
AddTracks(hip_hop_tracks, artist_name, tracks) ==
    IF tracks = <<>> THEN hip_hop_tracks
    ELSE AddTracks(AddTrack(hip_hop_tracks, artist_name, Head(tracks)),
                   artist_name, Tail(tracks))

\* Lines 73-86: for every artist, its first ten top tracks.
RECURSIVE get_artists_top_ten_tracks(_, _)
get_artists_top_ten_tracks(hip_hop_tracks, hip_hop_artists) ==
    IF hip_hop_artists = <<>> THEN hip_hop_tracks
    ELSE get_artists_top_ten_tracks(
            AddTracks(hip_hop_tracks, Head(hip_hop_artists).name,
                      SubSeq(Head(hip_hop_artists).tracks, 1,
                             IF Len(Head(hip_hop_artists).tracks) < TopTracks
                             THEN Len(Head(hip_hop_artists).tracks) ELSE TopTracks)),
            Tail(hip_hop_artists))

TTCall ==
    /\ prog = "TT" /\ pc = "call"
    /\ result' = get_artists_top_ten_tracks(<<>>, args)
    /\ pc' = "returned"
    /\ UNCHANGED notCall

NextTT == TTCall

SpecTT == InitTT /\ [][NextTT]_vars

\* ------------------- SpotifyTrackListGenerator.py sort_tracks_by_popularity
\* (the same function is in SpotifyArtistListGenerator.py)
\* hip_hop_tracks: up to MaxSorted tracks keyed 0..n-1, named by their place
\* in the input, each with a popularity.
InitSO ==
    /\ prog = "SO" /\ pc = "call"
    /\ args \in UNION {{[p \in 1..n |-> [key |-> I(p - 1),
                                           val |-> [name |-> p, popularity |-> f[p]]]] :
                           f \in [1..n -> 0..MaxPopularity]} : n \in 0..MaxSorted}
    /\ result = <<>>
    /\ NoScript

\* (An insertion that puts an item before those of its own popularity; kept
\* to show that C40 tells it from InsertSorted.)
InsertBeforeEqual(sorted, item) ==
    LET before == {p \in Pos(sorted) : sorted[p][2].popularity > item[2].popularity}
    IN  SubSeq(sorted, 1, Cardinality(before)) \o <<item>>
           \o SubSeq(sorted, Cardinality(before) + 1, Len(sorted))

\* sorted(..., key=popularity, reverse=True) is stable: an item comes after
\* every item before it in the input whose popularity is not smaller.
InsertSorted(sorted, item) ==
    LET before == {p \in Pos(sorted) : sorted[p][2].popularity >= item[2].popularity}
    IN  SubSeq(sorted, 1, Cardinality(before)) \o <<item>>
           \o SubSeq(sorted, Cardinality(before) + 1, Len(sorted))

RECURSIVE SortedItems(_, _)
SortedItems(sorted, items) ==
    IF items = <<>> THEN sorted
    ELSE SortedItems(InsertSorted(sorted, <<Head(items).key, Head(items).val>>), Tail(items))

\* Lines 101-104: sorted_tracks[len(sorted_tracks)] = track_info, for the
\* (track_id, track_info) pairs in sorted order.
sort_tracks_by_popularity(hip_hop_tracks) ==
    LET pairs == SortedItems(<<>>, hip_hop_tracks)
    IN  [p \in Pos(pairs) |-> [key |-> I(p - 1), val |-> pairs[p][2]]]

SOCall ==
    /\ prog = "SO" /\ pc = "call"
    /\ result' = sort_tracks_by_popularity(args)
    /\ pc' = "returned"
    /\ UNCHANGED notCall

NextSO == SOCall

SpecSO == InitSO /\ [][NextSO]_vars

\* ------------------------------- the two scripts that take artists out
SpecIds == (InitW2 \/ InitW3) /\ [][NextW2 \/ NextW3]_vars

\* ------------------------------------------------------------ all scripts
Init ==
    \/ InitS3 \/ InitW2 \/ InitW3 \/ InitRT \/ InitST \/ InitCK \/ InitRM \/ InitPT \/ InitDI \/ InitID
    \/ InitTM \/ InitEQ \/ InitTA \/ InitDJ \/ InitTT \/ InitSO

Next ==
    \/ NextS3 \/ NextW2 \/ NextW3 \/ NextRT \/ NextST \/ NextCK \/ NextRM \/ NextPT \/ NextDI \/ NextID
    \/ NextTM \/ NextEQ \/ NextTA \/ NextDJ \/ NextTT \/ NextSO

Spec == Init /\ [][Next]_vars


\* ================================================================= claims
\* What the claims read off a tree.
Terminal(artist, stage) == value(artist.scraped) = value(stage)

AllAlbumsScraped(artist) ==
    \A q \in Pos(artist.albums.items) : Truthy(artist.albums.items[q].val.scraped)

\* The stage of every artist and the flag of every album, by artist name.
StageView(tree) ==
    [p \in Pos(tree) |->
        [name |-> tree[p].val.name,
         scraped |-> tree[p].val.scraped,
         flags |-> [q \in Pos(tree[p].val.albums.items) |->
                       tree[p].val.albums.items[q].val.scraped]]]

\* The first artist, in insertion order, whose stage is not `stage`: its key,
\* or None when every artist is at `stage`.
FirstIncompleteArtist(tree, stage) ==
    LET open == {p \in Pos(tree) : ~Terminal(tree[p].val, stage)}
    IN  IF open = {} THEN None ELSE tree[Min(open)].key

\* A song record carries a failure mark.
RecordedFailed(song) == "failed" \in DOMAIN song /\ song.failed

SongTerminal(song) == song.ascii # "None" \/ RecordedFailed(song)

\* C1: saving a tree and loading it back yields a tree equal to the one
\* saved, nested key types and resume marker included.
C1_RoundTrip ==
    (prog = "RT" /\ pc = "loaded") => loaded = target_artists

\* C2: whenever the driver begins processing a new artist, album or song,
\* the stages and album flags in the checkpoint file are those in memory
\* (removed artists included).
C2_PersistedBeforeNextUnit ==
    /\ (/\ prog = "S3"
        /\ \/ pc = "artist" /\ i <= Len(target_artists)
           \/ pc = "album" /\ j <= Len(albums)
           \/ pc = "song" /\ k <= Len(target_songs))
       => StageView(load_web_scraper_target_urls(disk.doc)) = StageView(target_artists)
    /\ (prog = "W2" /\ pc = "select" /\ i < rng)
       => StageView(load_web_scraper_target_urls(disk.doc)) = StageView(target_artists)

\* C3: a song url whose text has been fetched and written is never fetched
\* again, over any kill and restart.
C3_NoDuplicateFetch ==
    [][(prog = "S3" /\ pc = "song" /\ k <= Len(target_songs) /\ k' = k + 1)
          => SongId(k) \notin files]_vars

C5_CompleteHaltsNormally ==
    (/\ prog = "W2" /\ pc \in {"done", "crashed"}
     /\ get_target_artist_to_scrape(target_artists) = None)
    => pc = "done"

\* C6: no step moves the stage of an artist to an earlier stage.
C6_StageNeverRegresses ==
    [][\A nm \in (DOMAIN heap) \cap (DOMAIN heap') :
          value(heap'[nm].scraped) >= value(heap[nm].scraped)]_vars

\* C7: an album's fully-scraped flag is true only if every song listed for
\* it has its text or is recorded as failed.
C7_FlagOnlyIfSongsTerminal ==
    prog = "S3" =>
        \A p \in Pos(target_artists) :
            \A q \in Pos(target_artists[p].val.albums.items) :
                LET album == target_artists[p].val.albums.items[q].val
                IN  Truthy(album.scraped) =>
                        /\ ~album.songs.none
                        /\ \A r \in Pos(album.songs.items) :
                              SongTerminal(album.songs.items[r].val)

\* C8: an artist is at the terminal stage only if every one of its albums
\* is flagged, and when the pass is over every artist whose albums are all
\* flagged is at the terminal stage.
C8_TerminalIffAlbumsScraped ==
    prog = "S3" =>
        \A p \in Pos(target_artists) :
            /\ Terminal(target_artists[p].val, "stage_three")
                  => AllAlbumsScraped(target_artists[p].val)
            /\ (pc = "done" /\ AllAlbumsScraped(target_artists[p].val))
                  => Terminal(target_artists[p].val, "stage_three")

\* C9: when the pass is over, every album whose own listing did not fail has
\* been scraped, and every song of a scraped album whose own fetch did not
\* fail has its text.
C9_FailureIsolation ==
    (prog = "S3" /\ pc = "done" /\ restarts = 0) =>
        \A p \in Pos(target_artists) :
            \A q \in Pos(target_artists[p].val.albums.items) :
                LET artist == target_artists[p].val
                    album == artist.albums.items[q].val
                IN  /\ <<artist.name, album.alid, -1>> \notin not_found
                          => Truthy(album.scraped)
                    /\ \A r \in Pos(album.songs.items) :
                          <<artist.name, album.alid, album.songs.items[r].val.sid>>
                              \notin not_found
                          => album.songs.items[r].val.ascii # "None"

\* C10: one album of two songs, the first fetched and the second NotFound:
\* after the pass the album is flagged, the artist terminal, song 1 has its
\* text, and song 2's record differs from that of a song never attempted.
C10_Scenario ==
    \A p \in Pos(target_artists) :
        LET artist == target_artists[p].val
            album == artist.albums.items[1].val
            songs == album.songs.items
        IN  (/\ prog = "S3" /\ pc = "done" /\ restarts = 0
             /\ Len(artist.albums.items) = 1
             /\ Len(songs) = 2
             /\ <<artist.name, 0, 0>> \in files
             /\ <<artist.name, 0, 1>> \in not_found \ transient)
            => /\ Truthy(album.scraped)
               /\ Terminal(artist, "stage_three")
               /\ songs[1].val.ascii = "text"
               /\ songs[2].val # NewSongs(2)[2].val

\* C11: a song fetch that fails with an error other than NotFound changes no
\* state: while the run goes on, the album of such a song is not flagged and
\* its artist is not moved to the terminal stage, so the song is fetched
\* again by the next pass.
C11_TransientChangesNothing ==
    prog = "S3" =>
        \A p \in Pos(target_artists) :
            \A q \in Pos(target_artists[p].val.albums.items) :
                LET artist == target_artists[p].val
                    album == artist.albums.items[q].val
                IN  (\E id \in transient : id[1] = artist.name /\ id[2] = album.alid)
                    => /\ ~Truthy(album.scraped)
                       /\ ~Terminal(artist, "stage_three")

\* The process was ended by a failure of one unit's page: an unreachable url
\* or a page that could not be parsed.
EntityLevelError ==
    \/ prog = "S3" /\ exc \in {"URLError", "UnboundLocalError"}
    \/ prog = "W2" /\ exc = "URLError"
    \/ prog = "W3" /\ exc = "KeyError in the HTTPError handler"

\* C12: an unreachable url or an unparsable page never ends the run as an
\* unhandled error; it only decides the stage or the removal of its unit.
C12_EntityFailuresNeverEscape == ~(pc = "crashed" /\ EntityLevelError)

\* C13: at every point of a save, a failed one included, the checkpoint path
\* holds a complete document, and the file can be loaded after a failed save.
C13_SaveIsAtomic ==
    prog = "ST" => (~torn /\ pc # "unloadable")

\* Every record of the file has the fields the driver reads, and every stage
\* tag names a member of ScraperStatus.
WellFormed(doc) ==
    \A p \in Pos(doc) :
        /\ {"scraped", "albums"} \subseteq DOMAIN doc[p].val
        /\ doc[p].val.scraped.enum[2] \in ScraperStatus

\* C14: a checkpoint with a missing field or an unknown stage tag is refused
\* by the load; the driver never starts on one, and no run fails on it after
\* the load.
C14_CorruptDetectedAtLoad ==
    prog = "CK" =>
        /\ pc \in {"artist", "done"} => WellFormed(disk.doc)
        /\ pc = "crashed" => exc = "AttributeError"

\* The names of the artists a checkpoint document has records for.
NamesOnDisk == {disk.doc[p].val.name : p \in Pos(disk.doc)}

\* C15: once scrape_albums has met an artist whose directory cannot be made
\* and has returned, the checkpoint has no record of that artist, and every
\* other artist has been processed in that run (is past stage_one).
C15_DirFailureRemovesArtist ==
    (prog = "W3" /\ pc = "done" /\ control_interrupt.flag) =>
        /\ NamesOnDisk = {artists[q].val : q \in Pos(artists)}
        /\ \A q \in Pos(artists) : value(heap[artists[q].val].scraped) >= value("stage_two")

\* C16: an artist is at the albums-enumerated stage (stage_two) only with at
\* least one album enumerated; an artist whose enumeration came back empty is
\* not in the tree.
C16_EmptyEnumerationRemoves ==
    prog = "W2" =>
        \A p \in Pos(target_artists) :
            value(target_artists[p].val.scraped) >= value("stage_two")
                => Len(target_artists[p].val.albums.items) >= 1

\* The artists (by name) of a dict of WebScraperThree, in its order.
NamesOf(dict) == [q \in Pos(dict) |-> dict[q].val]

\* C17: remove_artist_from_metadata returns the other artists in their
\* original relative order, keyed 0, 1, ... without gaps, each record's AID
\* equal to its key; with an aid that is not in the dict, all of them.
C17_RemoveRecompacts ==
    (prog = "RM" /\ pc = "removed") =>
        LET arg == control_interrupt.aid
            others == {p \in Pos(iter) : iter[p].key # arg}
        IN  /\ Len(artists) = Cardinality(others)
            /\ {artists[q].val : q \in Pos(artists)} = {iter[p].val : p \in others}
            /\ \A q1, q2 \in Pos(artists) :
                  q1 < q2 => \E p1, p2 \in others :
                                /\ p1 < p2
                                /\ iter[p1].val = artists[q1].val
                                /\ iter[p2].val = artists[q2].val
            /\ \A q \in Pos(artists) :
                  /\ artists[q].key = I(q - 1)
                  /\ heap[artists[q].val].aid = q - 1
            /\ (\A p \in Pos(iter) : iter[p].key # arg) => Len(artists) = Len(iter)

\* C17 witness: the middle one of three artists, under keys that were not
\* dense, has been removed.
C17_Witness ==
    /\ prog = "RM" /\ pc = "removed"
    /\ Len(iter) = 3 /\ Len(artists) = 2
    /\ iter[2].key = control_interrupt.aid
    /\ iter[1].key.n > iter[3].key.n
    /\ NamesOf(artists) = <<1, 3>>

\* The artists a dict of WebScraperThree holds, and the key of one of them.
Present(dict) == {dict[q].val : q \in Pos(dict)}

KeyIn(dict, nm) == dict[CHOOSE q \in Pos(dict) : dict[q].val = nm].key.n

\* The same for the dict of WebScraperTwo, whose values are the records.
NamesW2(tree) == {tree[p].val.name : p \in Pos(tree)}

EntryW2(tree, nm) == tree[CHOOSE p \in Pos(tree) : tree[p].val.name = nm]

\* C18, as stated: no step changes the key or the AID field of an artist
\* that stays in the tree, removals of other artists included.
C18_IdentifierImmutable ==
    [][/\ prog = "W3" =>
            \A nm \in Present(artists) \cap Present(artists') :
                /\ KeyIn(artists', nm) = KeyIn(artists, nm)
                /\ heap'[nm].aid = heap[nm].aid
       /\ prog = "W2" =>
            \A nm \in NamesW2(target_artists) \cap NamesW2(target_artists') :
                EntryW2(target_artists', nm).key = EntryW2(target_artists, nm).key]_vars

\* C18, amended: the identifier of an artist that stays in the tree changes
\* only in a step of WebScraperThree that removes an artist before it, and
\* then goes down by one, key and AID field alike; WebScraperTwo's deletion
\* leaves the keys and aid fields of the others as they were.
C18_IdentifierShiftsOnlyOnRemoval ==
    [][/\ prog = "W3" =>
            \A nm \in Present(artists) \cap Present(artists') :
                /\ heap'[nm].aid = KeyIn(artists', nm)
                /\ \/ KeyIn(artists', nm) = KeyIn(artists, nm)
                   \/ /\ Len(artists') = Len(artists) - 1
                      /\ KeyIn(artists', nm) = KeyIn(artists, nm) - 1
       /\ prog = "W2" =>
            \A nm \in NamesW2(target_artists) \cap NamesW2(target_artists') :
                /\ EntryW2(target_artists', nm).key = EntryW2(target_artists, nm).key
                /\ EntryW2(target_artists', nm).val.aid = EntryW2(target_artists, nm).val.aid]_vars

\* C18 witness: after a removal, an artist of WebScraperThree's tree is under
\* another identifier than the one discovery gave it (its rank, name - 1).
C18_Witness ==
    /\ prog = "W3"
    /\ \E nm \in Present(artists) :
          /\ KeyIn(artists, nm) # nm - 1
          /\ heap[nm].aid = KeyIn(artists, nm)

\* C19: a storage directory that cannot be made is reported and the run goes
\* on; no run is ended by a failed directory creation.
C19_DirectoryFailureNotFatal ==
    ~(prog = "S3" /\ pc = "crashed" /\ exc = "AttributeError")

\* C20: a stage is written as the tagged value {"__enum__": "<Type>.<member>"},
\* distinct members get distinct tags, decoding a tag gives back the member,
\* and so every stage of a saved tree is read back as it was.
C20_StageTagRoundTrip ==
    /\ \A st \in ScraperStatus :
          /\ EnumEncoder(st) = [enum |-> <<"ScraperStatus", st>>]
          /\ enum_decoder(EnumEncoder(st)) = st
    /\ \A st, tt \in ScraperStatus : st # tt => EnumEncoder(st) # EnumEncoder(tt)
    /\ (prog = "RT" /\ pc \in {"saved", "loaded"}) =>
          \A p \in Pos(disk.doc) :
              disk.doc[p].val.scraped = [enum |-> <<"ScraperStatus", target_artists[p].val.scraped>>]
    /\ (prog = "RT" /\ pc = "loaded") =>
          /\ Len(loaded) = Len(target_artists)
          /\ \A p \in Pos(loaded) : loaded[p].val.scraped = target_artists[p].val.scraped

\* C20 witness: a tree of two artists at different stages has been saved
\* and loaded back.
C20_Witness ==
    /\ prog = "RT" /\ pc = "loaded"
    /\ Len(loaded) = 2
    /\ loaded[1].val.scraped = "stage_three"
    /\ loaded[2].val.scraped = "stage_one"

\* The order in which a tree is iterated: its artists, each artist's albums
\* and each album's songs, by the number of the key and the unit's own name.
OrderView(tree) ==
    [p \in Pos(tree) |->
        [key |-> tree[p].key.n,
         name |-> tree[p].val.name,
         albums |-> [q \in Pos(tree[p].val.albums.items) |->
            LET album == tree[p].val.albums.items[q]
            IN  [key |-> album.key.n,
                 alid |-> album.val.alid,
                 songs |-> [r \in Pos(album.val.songs.items) |->
                              [key |-> album.val.songs.items[r].key.n,
                               sid |-> album.val.songs.items[r].val.sid]]]]]]

\* C21: a tree that was saved and loaded is iterated in the order of the tree
\* that was saved, artists, albums and songs alike, and the resume selection
\* on the loaded tree is the one on the tree that was saved.
C21_OrderPreserved ==
    (prog = "RT" /\ pc = "loaded") =>
        /\ OrderView(loaded) = OrderView(target_artists)
        /\ get_target_artist_to_scrape(loaded) = get_target_artist_to_scrape(target_artists)
        /\ FirstIncompleteArtist(loaded, "stage_three")
              = FirstIncompleteArtist(target_artists, "stage_three")

\* C21 witness: a loaded tree of two artists where the selection is the
\* second artist, which has two albums, the first of them with two songs.
C21_Witness ==
    /\ prog = "RT" /\ pc = "loaded"
    /\ Len(loaded) = 2
    /\ get_target_artist_to_scrape(loaded) = I(1)
    /\ Len(loaded[2].val.albums.items) = 2
    /\ Len(loaded[2].val.albums.items[1].val.songs.items) = 2

\* The artist (by name) is one get_target_artist_to_scrape can return: it is
\* in the tree with a resume_target whose first entry is not None.
Selectable(tree, nm) ==
    \E p \in Pos(tree) : tree[p].val.name = nm /\ tree[p].val.resume_target.a # None

\* C22: in the album-metadata driver the artist an iteration selects is
\* selectable; when the iteration is over that artist is not (its target was
\* cleared or it was removed); and inside main no artist becomes selectable
\* again, so every iteration selects an artist no earlier one selected.
C22_SelectionProgress ==
    [][prog = "W2" =>
         /\ (pc = "select" /\ pc' = "scrape")
               => /\ Selectable(target_artists, target_artists[j'].val.name)
                  /\ target_artists[j'].key = get_target_artist_to_scrape(target_artists)
         /\ (pc = "scrape" /\ pc' = "select")
               => ~Selectable(target_artists', target_artists[j].val.name)
         /\ (pc \in {"select", "scrape"})
               => \A nm \in 1..MaxArtists :
                     Selectable(target_artists', nm) => Selectable(target_artists, nm)]_vars

\* C22 witness: the second iteration of main has selected the second artist,
\* the first having been taken to stage_two by the first iteration.
C22_Witness ==
    /\ prog = "W2" /\ pc = "scrape" /\ i = 1 /\ j = 2
    /\ Len(target_artists) = 2
    /\ target_artists[1].val.scraped = "stage_two"
    /\ ~Selectable(target_artists, target_artists[1].val.name)

\* The songs whose text a checkpoint document holds.
SongTexts(name, album) ==
    {<<name, album.alid, album.songs.items[r].val.sid>> :
        r \in {t \in Pos(album.songs.items) : album.songs.items[t].val.ascii = "text"}}

ArtistTexts(artist) ==
    UNION {SongTexts(artist.name, artist.albums.items[q].val) : q \in Pos(artist.albums.items)}

TextsOf(doc) == UNION {ArtistTexts(doc[p].val) : p \in Pos(doc)}

\* C23: a text that the checkpoint holds for a song stays there: no step of
\* a pass, a restart or the transcriber takes it out or changes it.
C23_RawTextImmutable ==
    [][TextsOf(disk.doc) \subseteq TextsOf(disk'.doc)]_vars

\* The anchors with an href on the pages parsed so far, in their order.
Encountered ==
    UNION {{listing[p][q].name : q \in {r \in Pos(listing[p]) : listing[p][r].href}} :
           p \in {pp \in Pos(listing) : pp < i}}

\* C24: after the listing pages are parsed in turn the artists are keyed
\* 0..n-1 in the order they were met over all the pages, each record's
\* identifier is its key (so no two share one); albums are keyed 0..m-1 and
\* songs 0..k-1 in listing order, each with its key as identifier.
C24_DiscoveryKeysInOrder ==
    prog = "DI" =>
        /\ \A p \in Pos(target_artists) :
              /\ target_artists[p].key = I(p - 1)
              /\ target_artists[p].val.aid = p - 1
              /\ \A q \in Pos(target_artists[p].val.albums.items) :
                    /\ target_artists[p].val.albums.items[q].key = I(q - 1)
                    /\ target_artists[p].val.albums.items[q].val.alid = q - 1
        /\ \A p, q \in Pos(target_artists) :
              p < q => target_artists[p].val.name < target_artists[q].val.name
        /\ {target_artists[p].val.name : p \in Pos(target_artists)} = Encountered
        /\ \A r \in Pos(target_songs) :
              /\ target_songs[r].key = I(r - 1)
              /\ target_songs[r].val.sid = r - 1

\* C24 witness: two pages were parsed, the first with a separator before its
\* artist, the second with two artists; two albums and two songs were listed.
C24_Witness ==
    /\ prog = "DI" /\ pc = "songs"
    /\ Len(listing) = 2 /\ Len(listing[1]) = 2
    /\ ~listing[1][1].href
    /\ Len(target_artists) = 3
    /\ Len(target_artists[1].val.albums.items) = 2
    /\ Len(target_songs) = 2

\* C25: a pass over a checkpoint in which every artist already has the stage
\* the pass gives is no error and leaves the checkpoint as it was.
C25_DonePassIsNoOp ==
    [][pc' # "crashed" /\ disk' = disk]_vars

\* The albums (artist's name, alid) whose flag is true in a tree, and the
\* record such an album has there.
Flagged(tree) ==
    UNION {{<<tree[p].val.name, tree[p].val.albums.items[q].val.alid>> :
               q \in {t \in Pos(tree[p].val.albums.items) :
                         tree[p].val.albums.items[t].val.scraped = "True"}} :
           p \in Pos(tree)}

AlbumRecord(tree, id) ==
    LET p == CHOOSE pp \in Pos(tree) : tree[pp].val.name = id[1]
        q == CHOOSE qq \in Pos(tree[p].val.albums.items) :
                 tree[p].val.albums.items[qq].val.alid = id[2]
    IN  tree[p].val.albums.items[q].val

\* C26: in the song pass no step fetches the listing or a song of an album
\* that is flagged in the checkpoint, and no step changes the record or the
\* songs of such an album, in the file or, while the pass runs, in memory.
C26_FlaggedAlbumNotRefetched ==
    [][prog = "S3" =>
         /\ (pc = "album" /\ j <= Len(albums) /\ pc' \in {"song", "artist", "crashed"})
               => <<artist_info.name, album_info.alid>> \notin Flagged(disk.doc)
         /\ (pc = "song" /\ k <= Len(target_songs) /\ (k' = k + 1 \/ pc' = "crashed"))
               => <<artist_info.name, album_info.alid>> \notin Flagged(disk.doc)
         /\ \A id \in Flagged(disk.doc) :
               /\ id \in Flagged(disk'.doc)
               /\ AlbumRecord(disk'.doc, id) = AlbumRecord(disk.doc, id)
         /\ \A id \in Flagged(target_artists) :
               (target_artists' # <<>> /\ restarts' = restarts) =>
                  /\ id \in Flagged(target_artists')
                  /\ AlbumRecord(target_artists', id).songs.items
                        = AlbumRecord(target_artists, id).songs.items]_vars

\* C26 witness: started again on a checkpoint in which the first of an
\* artist's two albums is flagged, the pass has gone past that album without
\* listing it.
C26_Witness ==
    /\ prog = "S3" /\ restarts = 1 /\ pc = "album" /\ j = 2
    /\ target_songs = <<>>
    /\ Len(albums) = 2
    /\ <<artist_info.name, albums[1].val.alid>> \in Flagged(disk.doc)
    /\ <<artist_info.name, albums[2].val.alid>> \notin Flagged(disk.doc)

\* C27: when a pass has halted normally, every artist still in the tree is
\* at the stage the pass gives: stage_two after WebScraperTwo's main,
\* stage_three after scrape_albums (every artist is incomplete when these
\* passes start on the checkpoint of the pass before them).
C27_NormalHaltLeavesNoneIncomplete ==
    /\ (prog = "W2" /\ pc = "done") =>
          \A p \in Pos(target_artists) : Terminal(target_artists[p].val, "stage_two")
    /\ (prog = "W3" /\ pc = "done") =>
          \A q \in Pos(artists) : Terminal(heap[artists[q].val], "stage_three")

\* The artists of init_artists_storage_dirs whose directory can be made, in
\* the order of discovery.
Makeable ==
    SelectSeq([nm \in 1..Cardinality(DOMAIN heap) |-> nm],
              LAMBDA nm : heap[nm].storage_dir = "makeable")

\* C28: init_artists_storage_dirs returns, and when it has, the file holds
\* exactly the artists whose directory could be made, in their order, keyed
\* 0..k-1 with AID equal to the key, each at stage_one or later.
C28_InitDirsResult ==
    /\ [](( prog = "ID" /\ pc = "done") =>
            /\ Len(disk.doc) = Len(Makeable)
            /\ \A q \in Pos(disk.doc) :
                  /\ disk.doc[q].val.name = Makeable[q]
                  /\ disk.doc[q].key = S(q - 1)
                  /\ disk.doc[q].val.aid = q - 1
                  /\ value(enum_decoder(disk.doc[q].val.scraped)) >= value("stage_one"))
    /\ <>(prog = "ID" => pc = "done")

\* C28 witness: of three artists the directories of the first and the last
\* could not be made; the function has returned.
C28_Witness ==
    /\ prog = "ID" /\ pc = "done"
    /\ Cardinality(DOMAIN heap) = 3
    /\ Makeable = <<2>>
    /\ Len(disk.doc) = 1

\* C29: in scrape_albums a step taken for the artist the loop is at changes
\* the stage of that artist only, and no lookup of the artist by the
\* identifier the loop holds fails, also after an earlier artist was removed
\* and the others re-indexed.
C29_UpdatesHitCurrentArtist ==
    [][(prog = "W3" /\ pc \in {"loop", "scrape"} /\ i <= Len(iter)) =>
         /\ \A nm \in (DOMAIN heap) \cap (DOMAIN heap') :
               nm # loop_artist => heap'[nm].scraped = heap[nm].scraped
         /\ ~(pc' = "crashed" /\ exc' = "KeyError")]_vars

\* C30: an artist is at the stage that says its albums' directories are
\* initialized (stage_three in WebScraperThree, stage_two in WebScraperTwo)
\* only if the directory of every one of its albums exists: no album
\* directory of such an artist is one that could not be made.
C30_StageMeansAllAlbumDirs ==
    /\ prog = "W2" =>
          \A p \in Pos(target_artists) :
             target_artists[p].val.scraped = "stage_two" =>
                \A a \in 0..MaxAlbums : <<target_artists[p].val.aid, a>> \notin missing_dirs
    /\ prog = "W3" =>
          \A nm \in DOMAIN heap :
             heap[nm].scraped = "stage_three" =>
                \A a \in 0..MaxAlbums : <<nm, a>> \notin missing_dirs

\* C31: in every reachable state an artist whose stage is stage_one or later
\* has a storage directory that exists: the artists the script holds at such
\* a stage are none whose directory could not be made.
LaterStages == {"stage_one", "stage_two", "stage_three", "stage_four"}

C31_StageOneMeansArtistDir ==
    /\ prog = "W2" =>
          \A p \in Pos(target_artists) :
             target_artists[p].val.scraped \in LaterStages =>
                <<target_artists[p].val.aid>> \notin missing_dirs
    /\ prog = "W3" =>
          \A q \in Pos(artists) :
             heap[artists[q].val].scraped \in LaterStages =>
                <<artists[q].val>> \notin missing_dirs

\* C32: a song's raw text is fetched only when the song's storage directory
\* has been initialized, and the text file is written only into an existing
\* directory: the song whose directory could not be made (the run ends in
\* init_song_storage_dir) has no fetched text and no text file.
C32_SongDirBeforeFetch ==
    (prog = "S3" /\ pc = "crashed" /\ exc = "AttributeError") =>
        /\ target_songs[k].val.ascii # "text"
        /\ SongId(k) \notin files

C34_Startup ==
    [][prog = "W2" =>
         /\ (pc = "start" /\ pc' = "select" /\ disk.exists) =>
               /\ disk' = disk
               /\ Len(target_artists') = Len(disk.doc)
               /\ \A p \in Pos(disk.doc) :
                     /\ target_artists'[p].key = I(disk.doc[p].key.n)
                     /\ target_artists'[p].val.name = disk.doc[p].val.name
         /\ (pc = "start" /\ pc' = "select" /\ ~disk.exists) =>
               /\ disk'.exists
               /\ Len(disk'.doc) = Len(target_artists')
               /\ \A p \in Pos(target_artists') :
                     /\ disk'.doc[p].val.name = target_artists'[p].val.name
                     /\ target_artists'[p].val.scraped = "stage_zero"
         /\ (disk.exists /\ disk' # disk) => pc = "scrape"]_vars

C34_Witness ==
    /\ prog = "W2" /\ pc = "select" /\ i = 0 /\ restarts = 1
    /\ disk.exists
    /\ \E p \in Pos(target_artists) : target_artists[p].val.scraped = "stage_two"
    /\ \E p \in Pos(target_artists) : target_artists[p].val.scraped = "stage_zero"

\* C35: comparing two members of the same status enum gives True when they
\* have the same value and False when they have not, for ScraperStatus and
\* for TranscriptionStatus alike, and does not end the program; the program
\* ends only when a member is compared with a foreign object.
C35_StageEquality ==
    (prog = "EQ" /\ pc # "call") =>
        /\ args.obj.cls = args.self.cls =>
              result = PyBool(args.self.value = args.obj.value)
        /\ pc = "exited" => args.obj.cls # args.self.cls

\* C36: on every tree the song-scraping pass can leave, the transcriber
\* passes over the albums without songs and the songs without text,
\* processes every song that has text, and completes without error: it never
\* ends in an exception, and when it is done the songs it processed are the
\* songs with text.
SongsWithText(tree) ==
    UNION {UNION {{<<tree[p].val.name, tree[p].val.albums.items[q].val.alid,
                     tree[p].val.albums.items[q].val.songs.items[r].val.sid>> :
                       r \in {x \in Pos(tree[p].val.albums.items[q].val.songs.items) :
                                 tree[p].val.albums.items[q].val.songs.items[x].val.ascii # "None"}} :
                   q \in {y \in Pos(tree[p].val.albums.items) :
                             ~tree[p].val.albums.items[y].val.songs.none}} :
           p \in Pos(tree)}

C36_TranscriberSkipsUnfetched ==
    prog = "TM" =>
        /\ pc # "crashed"
        /\ pc = "done" => files = SongsWithText(target_artists)

\* C37: transcribe_arpabet_via_cmu partitions the tokens.  The transcription
\* is, in input order, one (word, phonemes) entry for each occurrence of a
\* token that is a key of the dictionary; failed_transcriptions maps each
\* token that is not to the number of its occurrences, and has no other key;
\* the entries and the failure counts add up to the number of tokens.
RECURSIVE Flat(_)
Flat(lines) == IF lines = <<>> THEN <<>> ELSE Head(lines) \o Flat(Tail(lines))

Occurrences(tokens, t) == Cardinality({p \in Pos(tokens) : tokens[p] = t})

RECURSIVE SumVals(_)
SumVals(items) == IF items = <<>> THEN 0 ELSE Head(items).val + SumVals(Tail(items))

InDict(t) == \E p \in Pos(pron_dict) : pron_dict[p].key = t

C37_TranscriptionPartitions ==
    (prog = "TA" /\ pc = "returned") =>
        LET tokens == Flat(args)
            known == SelectSeq(tokens, InDict)
            failed == result.failed_transcriptions
        IN  /\ Len(result.arpabet_graphones) = Len(known)
            /\ \A p \in Pos(known) :
                  /\ result.arpabet_graphones[p][1] = known[p]
                  /\ \E q \in Pos(pron_dict) :
                        pron_dict[q] = [key |-> known[p],
                                        val |-> result.arpabet_graphones[p][2]]
            /\ \A t \in Tokens :
                  IF ~InDict(t) /\ Occurrences(tokens, t) > 0
                  THEN /\ Cardinality({p \in Pos(failed) : failed[p].key = t}) = 1
                       /\ failed[Lookup(failed, t)].val = Occurrences(tokens, t)
                  ELSE \A p \in Pos(failed) : failed[p].key # t
            /\ Len(result.arpabet_graphones) + SumVals(failed) = Len(tokens)

C37_Witness ==
    /\ prog = "TA" /\ pc = "returned"
    /\ Len(result.arpabet_graphones) > 0
    /\ \E p \in Pos(result.failed_transcriptions) : result.failed_transcriptions[p].val = 2
    /\ Len(result.failed_transcriptions) = 2

\* C38: remove_dj_tag returns normally for every input.  It returns the
\* input as it is when no line holds '[dj]'; otherwise it returns the input
\* lines, in order, without the lines from the first '[dj]' line up to the
\* next bracketed line.
C38_RemoveDJTag ==
    (prog = "DJ" /\ pc # "call") =>
        /\ pc = "returned"
        /\ (\A p \in Pos(args) : ~HasDJ(args[p])) => result = args
        /\ \A a, b \in Pos(args) :
              (/\ HasDJ(args[a]) /\ \A p \in 1..(a - 1) : ~HasDJ(args[p])
               /\ b > a /\ Bracketed(args[b])
               /\ \A p \in (a + 1)..(b - 1) : ~Bracketed(args[p]))
              => result = SelectSeq(args, LAMBDA l : l.num < a \/ l.num > b)

\* C39: get_artists_top_ten_tracks returns unique tracks: no two entries of
\* the mapping it returns have the same track uri, also when a track is among
\* the top tracks of two artists; the entries are keyed 0..n-1 and at most
\* ten tracks are taken for an artist.
C39_TopTracksUnique ==
    (prog = "TT" /\ pc = "returned") =>
        /\ \A p, q \in Pos(result) : p # q => result[p].val.uri # result[q].val.uri
        /\ \A p \in Pos(result) : result[p].key = I(p - 1)
        /\ \A a \in Pos(args) :
              Cardinality({p \in Pos(result) : result[p].val.artist = args[a].name}) <= TopTracks

\* C40: sort_tracks_by_popularity returns a mapping keyed 0..n-1 whose values
\* are the input's values, each once, in non-increasing order of popularity,
\* the tracks of one popularity in the order the input had them.
C40_SortedByPopularity ==
    (prog = "SO" /\ pc = "returned") =>
        /\ Len(result) = Len(args)
        /\ \A p \in Pos(result) : result[p].key = I(p - 1)
        /\ \A p \in Pos(args) :
              Cardinality({q \in Pos(result) : result[q].val = args[p].val}) = 1
        /\ \A p, q \in Pos(result) :
              p < q =>
                 /\ result[p].val.popularity >= result[q].val.popularity
                 /\ result[p].val.popularity = result[q].val.popularity =>
                       result[p].val.name < result[q].val.name

C40_Witness ==
    /\ prog = "SO" /\ pc = "returned"
    /\ Len(result) = MaxSorted
    /\ result[1].val.name # 1
    /\ \E p, q \in Pos(result) :
          p # q /\ result[p].val.popularity = result[q].val.popularity
    /\ \E p, q \in Pos(result) : result[p].val.popularity # result[q].val.popularity

====
